---- MODULE Spec2Model ----
(***************************************************************************)
(* Verification model of AI-video-master-5.0:                              *)
(*   - ParallelBatchProcessor (video_to_slice/src/parallel_batch_processor)*)
(*     one batch run: semaphore-bounded items, each running process_video  *)
(*     in an executor thread, aggregated by the event loop;                *)
(*   - GoogleVideoAnalyzer.analyze_video's submission retry loop;          *)
(*   - the slice and transcript quality gates (pure functions);            *)
(*   - ParallelVideoSlicer.extract_segments_parallel (thread pool).        *)
(***************************************************************************)
EXTENDS Integers, Sequences, FiniteSets, TLC

\* ------------------------------------------------------------------ bounds
NumVideos == 2
MaxConcurrent == 2
MaxSlices == 10
MaxSegments == 10
NumSegments == 3
MaxWorkers == 2
FloatBits == 6
MaxRanges == 5
SegmentsPerItem == 2
MaxFiles == 2
MaxTranscript == 2
MaxClock == 2
MaxTextLen == 4
MaxEntries == 2
MaxRuns == 2
MaxHours == 1

Videos == 1..NumVideos

\* --------------------------------------------------------- program constants
\* google_video_analyzer.py:227
max_retries == 3
\* parallel_batch_processor.py:313  stop_after_attempt(3)
stop_after_attempt == 3
\* parallel_batch_processor.py:176 / batch_video_to_slice.py:122
min_file_size == 1024
\* batch_video_to_slice.py:127
max_slice_duration == 300
\* parallel_batch_processor.py:183  success_rate >= 80
quality_threshold == 80

VARIABLES
    \* ---- ParallelBatchProcessor (one instance, one batch run)
    max_concurrent,   \* self.max_concurrent
    semaphore,        \* value of self.semaphore
    stats,            \* self.stats
    results,          \* results list of parallel_batch_process
    completed,        \* completed counter of parallel_batch_process
    mainpc,           \* position of parallel_batch_process
    maintmp,          \* value of stats["total_slices"] read by line 406
    report,           \* report_data['batch_stats']
    pc,               \* per item: position of async_process_video / process_video
    result,           \* per item: the dict process_video returned
    tmp,              \* per item: value of stats["total_slices"] read by line 282
    \* ---- history (not program state)
    attempts,         \* per item: times the body of async_process_video was entered
    fate,             \* per item: what its own collaborators did ("ok", "exhausted", "fail")
    applied,          \* sum of the increments applied to stats["total_slices"]
    \* ---- quality gates (pure functions applied to drawn inputs)
    gate_slices,      \* the slices argument
    gate_segments,    \* the segments argument
    verdictP,         \* ParallelBatchProcessor._validate_slice_quality(gate_slices)
    verdictB,         \* BatchVideoSlicer._validate_slice_quality(gate_slices)
    verdictT,         \* BatchVideoTranscriber._validate_segments_quality(gate_segments)
    \* ---- ParallelVideoSlicer.extract_segments_parallel
    seg_pc,           \* per submitted future: "pending", "running", "finished", "collected"
    seg_out,          \* per future: what the encoder invocation did
    seg_result,       \* per future: value or exception the future holds
    slice_results,    \* results list of extract_segments_parallel
    slicer_pc,        \* position of extract_segments_parallel
    max_workers,      \* self.max_workers of the slicer's thread pool
    \* ---- GoogleVideoAnalyzer.analyze_video (one call)
    an_pc,            \* position of analyze_video
    an_args,          \* its arguments: auto_cleanup_storage and what video_path/video_uri are
    retry_count,      \* retry_count
    elapsed,          \* elapsed of the waiting loop, in seconds
    uploaded,         \* uploaded_blob_name and bucket are set
    blob,             \* the uploaded file exists in Cloud Storage
    an_error,         \* the exception on its way to the outer except branch
    an_result,        \* the dict analyze_video returned
    an_subs,          \* history: outcomes of the calls of client.annotate_video
    an_deletes        \* history: calls of blob.delete() made by analyze_video

batchVars == <<max_concurrent, semaphore, stats, results, completed, mainpc, maintmp,
               report, pc, result, tmp, attempts, fate, applied>>
gateVars == <<gate_slices, gate_segments, verdictP, verdictB, verdictT>>
slicerVars == <<seg_pc, seg_out, seg_result, slice_results, slicer_pc, max_workers>>
analyzerVars == <<an_pc, an_args, retry_count, elapsed, uploaded, blob, an_error,
                  an_result, an_subs, an_deletes>>
VARIABLES
    \* ---- _create_default_shots (one call)
    sh_pc,            \* position of _create_default_shots
    sh_args,          \* duration (what ffprobe reported) and segment_duration
    current_time,     \* current_time
    index,            \* index
    shots             \* shots

shotVars == <<sh_pc, sh_args, current_time, index, shots>>

VARIABLES
    \* ---- ParallelBatchProcessor.process_video (one call, step by step)
    pv_pc,            \* position of process_video
    pv_shots,         \* shots
    pv_fallback,      \* history: whether _create_default_shots was called, and gave shots
    pv_outcomes,      \* history: what the encoder did for each shot
    pv_slices,        \* slice_results
    pv_quality,       \* quality_result
    pv_manifest,      \* the file <video_name>_slices.json was written
    pv_error,         \* the exception on its way to the except branch
    pv_result         \* the dict process_video returned

itemVars == <<pv_pc, pv_shots, pv_fallback, pv_outcomes, pv_slices, pv_quality,
              pv_manifest, pv_error, pv_result>>

VARIABLES
    \* ---- BatchVideoSlicer.process_video: the sequential slicing loop
    sq_pc,            \* position of process_video
    sq_shots,         \* shots
    sq_i,             \* the shot the loop is at (i + 1 of enumerate)
    sq_outcomes,      \* history: what the encoder did for each shot
    sq_slices,        \* slice_results
    sq_quality,       \* quality_result
    sq_manifest,      \* the file <video_name>_slices.json was written
    sq_result         \* the dict process_video returned

seqVars == <<sq_pc, sq_shots, sq_i, sq_outcomes, sq_slices, sq_quality, sq_manifest,
             sq_result>>

VARIABLES
    \* ---- the batch entry points: process_batch_sync and batch_process
    en_pc,            \* position of the entry point
    en_entry,         \* which entry point was called: "sync" or "srt"
    en_input,         \* what is at input_dir: "missing", "file" or "dir"
    en_files,         \* the regular files in input_dir
    en_video_files,   \* video_files
    en_outdir,        \* output_dir was created by batch_process
    en_processed,     \* number of items handed to the per-item processing
    en_report,        \* a batch report was written
    en_result         \* what the call gave back: the dict, or the exception

entryVars == <<en_pc, en_entry, en_input, en_files, en_video_files, en_outdir,
               en_processed, en_report, en_result>>

\* the variables of the item processors, the fallback generator and the batch
\* entry points
VARIABLES
    \* ---- the executor of the one ParallelVideoSlicer, used by several items
    pl_workers,       \* max_workers of self.executor
    pl_pc,            \* per item: position of its extract_segments_parallel call
    pl_task,          \* per item and segment: state of the submitted task
    pl_queue          \* the work queue of the executor, oldest task first

poolVars == <<pl_workers, pl_pc, pl_task, pl_queue>>

\* the variables of a command-line entry point
VARIABLES
    \* ---- main() of a command-line entry point, up to its exit status
    ex_main,          \* which main() runs
    ex_pc,            \* position in main()
    ex_input,         \* "missing" | "dir": what is at the input path
    ex_credentials,   \* the credentials / API key of the remote service are set
    ex_items,         \* the fate of each matching file of the input directory
    ex_result,        \* what the batch function returned or raised
    ex_status         \* the exit status, -1 before the process has exited

exitVars == <<ex_main, ex_pc, ex_input, ex_credentials, ex_items, ex_result, ex_status>>

\* the variables of the transcription of one video
VARIABLES
    \* ---- BatchVideoTranscriber.transcribe_video_to_srt_with_details (one call)
    tr_pc,            \* position in the call, then in the loop of batch_process
    tr_remote,        \* history: what the remote transcription service did
    tr_trans_result,  \* trans_result, the dict transcribe_audio returned
    tr_quality,       \* quality_check
    tr_srt_file,      \* the file at output_srt_path: "absent" | "empty" | "written"
    tr_result,        \* the dict the call returned
    tr_counted        \* the counter of batch_process the item was added to

transVars == <<tr_pc, tr_remote, tr_trans_result, tr_quality, tr_srt_file, tr_result,
               tr_counted>>

\* the variables of a gate called twice on the same list
VARIABLES
    \* ---- one Quality Gate called again on the list it was called on before
    rp_gate,          \* "parallel": the slice gate, "segments": the transcript gate
    rp_slices,        \* the list of slice dicts the caller holds
    rp_segments,      \* the list of segment dicts the caller holds
    rp_given,         \* history: the list as it was before the first call
    rp_clock,         \* the wall clock, in ticks of datetime.now()
    rp_verdicts       \* the dicts the calls returned, in order

repeatVars == <<rp_gate, rp_slices, rp_segments, rp_given, rp_clock, rp_verdicts>>

\* the variables of the output paths of two input files
VARIABLES
    \* ---- the artifacts of two files of one input directory
    pa_pipeline,      \* "slice": the slicing batch, "srt": the transcription batch
    pa_files,         \* per item: the file name, as stem and extension
    pa_paths          \* per item: the output paths computed for it

pathVars == <<pa_pipeline, pa_files, pa_paths>>

\* the variables of the conversion of a transcript to subtitle text
VARIABLES
    \* ---- to_srt on a list of segments, and the subtitle text read back
    sr_pc,            \* "convert" | "parse" | "done"
    sr_segments,      \* the segments handed to to_srt
    sr_srt,           \* the string to_srt returned, as the list of its lines
    sr_parsed         \* the entries a reader of the subtitle text gets

srtVars == <<sr_pc, sr_segments, sr_srt, sr_parsed>>

\* the variables of one processor instance used for several batch runs
VARIABLES
    \* ---- one processor object and the batch runs made with it
    ru_kind,          \* "parallel": ParallelBatchProcessor, "sequential": BatchVideoSlicer
    ru_pc,            \* "constructed", "running", "returned"
    ru_stats,         \* self.stats
    ru_left,          \* the files of the current run not processed yet
    ru_runs           \* the runs that have returned

reuseVars == <<ru_kind, ru_pc, ru_stats, ru_left, ru_runs>>

\* the variables of the loop of BatchVideoTranscriber.batch_process
VARIABLES
    \* ---- batch_process run, and run again, over one directory
    sb_pc,            \* "start", "loop", "returned"
    sb_files,         \* video_files, in the order of os.listdir
    sb_i,             \* the position in video_files of the next file
    sb_disk,          \* per stem: the content of <output_dir>/<stem>.srt
    sb_results,       \* the dict `results`
    sb_log,           \* history: what each iteration of this run found and did
    sb_hist           \* history: the run number, the disk when this run began
                      \* and whether every item of the run before succeeded

loopVars == <<sb_pc, sb_files, sb_i, sb_disk, sb_results, sb_log, sb_hist>>

\* the variables of the two time stamp formatters
VARIABLES
    \* ---- one time given to both time stamp formatters
    ts_ms,            \* the time, in whole milliseconds
    ts_dash,          \* what DashScopeAudioAnalyzer._format_timestamp(ms) printed
    ts_srt            \* what srt_utils._format_srt_time(ms / 1000) printed

stampVars == <<ts_ms, ts_dash, ts_srt>>

\* ---- the variable groups taken together
laterVars == <<poolVars, exitVars, transVars, repeatVars, pathVars, srtVars, reuseVars, loopVars, stampVars>>
besidesPool == <<batchVars, gateVars, slicerVars, analyzerVars, shotVars, itemVars,
    seqVars, entryVars, exitVars, transVars, repeatVars, pathVars, srtVars, reuseVars,
    loopVars, stampVars>>
besidesExit == <<batchVars, gateVars, slicerVars, analyzerVars, shotVars, itemVars,
    seqVars, entryVars, poolVars, transVars, repeatVars, pathVars, srtVars, reuseVars,
    loopVars, stampVars>>
besidesTrans == <<batchVars, gateVars, slicerVars, analyzerVars, shotVars, itemVars,
    seqVars, entryVars, poolVars, exitVars, repeatVars, pathVars, srtVars, reuseVars,
    loopVars, stampVars>>
besidesRepeat == <<batchVars, gateVars, slicerVars, analyzerVars, shotVars, itemVars,
    seqVars, entryVars, poolVars, exitVars, transVars, pathVars, srtVars, reuseVars,
    loopVars, stampVars>>
besidesPaths == <<batchVars, gateVars, slicerVars, analyzerVars, shotVars, itemVars,
    seqVars, entryVars, poolVars, exitVars, transVars, repeatVars, srtVars, reuseVars,
    loopVars, stampVars>>
besidesSrt == <<batchVars, gateVars, slicerVars, analyzerVars, shotVars, itemVars,
    seqVars, entryVars, poolVars, exitVars, transVars, repeatVars, pathVars, reuseVars,
    loopVars, stampVars>>
besidesReuse == <<batchVars, gateVars, slicerVars, analyzerVars, shotVars, itemVars,
    seqVars, entryVars, poolVars, exitVars, transVars, repeatVars, pathVars, srtVars,
    loopVars, stampVars>>
besidesLoop == <<batchVars, gateVars, slicerVars, analyzerVars, shotVars, itemVars,
    seqVars, entryVars, poolVars, exitVars, transVars, repeatVars, pathVars, srtVars,
    reuseVars, stampVars>>
besidesStamp == <<batchVars, gateVars, slicerVars, analyzerVars, shotVars, itemVars,
    seqVars, entryVars, poolVars, exitVars, transVars, repeatVars, pathVars, srtVars,
    reuseVars, loopVars>>
extVars == <<shotVars, itemVars, seqVars, entryVars, laterVars>>
vars == <<batchVars, gateVars, slicerVars, analyzerVars, extVars>>
\* ---- end of the variable groups

\* ============================================================ quality gates
\* batch_video_to_slice.py:151-153
min_valid_ratio_pct == 80
max_error_ratio_pct == 20
min_slice_count == 2
\* batch_video_to_srt.py:159-161
seg_min_valid_ratio_pct == 90
min_segments == 1
seg_max_error_ratio_pct == 10

\* A slice dict as the gates read it: whether it has a 'file_path' key, whether
\* os.path.exists(file_path), os.path.getsize(file_path), and 'duration' (in milliseconds).
SliceDict(has_path, exists, size, duration) ==
    [has_path |-> has_path, exists |-> exists, size |-> size, duration |-> duration]

\* parallel_batch_processor.py:174-177: the slice is counted in valid_slices
ParallelSliceValid(s) ==
    /\ s.has_path /\ s.exists
    /\ s.size > min_file_size

\* parallel_batch_processor.py:159-194. success_rate = valid/total*100 is a float;
\* success_rate >= 80 is decided here as valid*100 >= 80*total (the same outcome
\* for every total below 2^50: the quotient is correctly rounded).
ParallelValidateSliceQuality(slices) ==
    IF Len(slices) = 0
    THEN [passed |-> FALSE, error |-> "no_slices", total_slices |-> 0, valid_slices |-> 0]
    ELSE LET total_slices == Len(slices)
             valid_slices == Cardinality({k \in 1..Len(slices) : ParallelSliceValid(slices[k])})
             passed == valid_slices * 100 >= quality_threshold * total_slices
         IN [passed |-> passed,
             error |-> IF valid_slices * 100 < quality_threshold * total_slices
                       THEN "low_success_rate" ELSE "none",
             total_slices |-> total_slices,
             valid_slices |-> valid_slices]

\* batch_video_to_slice.py:111-133: the three checks of the loop, in order
BatchSliceValid(s) ==
    IF ~(s.has_path /\ s.exists) THEN FALSE
    ELSE IF s.size < min_file_size THEN FALSE
    ELSE IF s.duration <= 0 \/ s.duration > max_slice_duration * 1000 THEN FALSE
    ELSE TRUE

\* a loop that counts a slice of unreasonable duration invalid and goes on to
\* count it valid as well
BatchSliceStep_NoContinue(acc, s) ==
    IF ~(s.has_path /\ s.exists) THEN [acc EXCEPT !.invalid_slices = @ + 1]
    ELSE IF s.size < min_file_size THEN [acc EXCEPT !.invalid_slices = @ + 1]
    ELSE IF s.duration <= 0 \/ s.duration > max_slice_duration * 1000
    THEN [acc EXCEPT !.invalid_slices = @ + 1, !.valid_slices = @ + 1]
    ELSE [acc EXCEPT !.valid_slices = @ + 1]

\* batch_video_to_slice.py:111-133: one iteration of the loop, each `continue`
\* branch after its invalid_slices += 1
BatchSliceStep(acc, s) ==
    IF ~(s.has_path /\ s.exists) THEN [acc EXCEPT !.invalid_slices = @ + 1]
    ELSE IF s.size < min_file_size THEN [acc EXCEPT !.invalid_slices = @ + 1]
    ELSE IF s.duration <= 0 \/ s.duration > max_slice_duration * 1000
    THEN [acc EXCEPT !.invalid_slices = @ + 1]
    ELSE [acc EXCEPT !.valid_slices = @ + 1]

RECURSIVE BatchSliceLoop(_, _, _)
BatchSliceLoop(slices, k, acc) ==
    IF k > Len(slices) THEN acc
    ELSE BatchSliceLoop(slices, k + 1, BatchSliceStep(acc, slices[k]))

\* batch_video_to_slice.py:76-194
BatchValidateSliceQuality(slices) ==
    IF Len(slices) = 0
    THEN [passed |-> FALSE, error |-> "no_slices", total_slices |-> 0,
          valid_slices |-> 0, invalid_slices |-> 0]
    ELSE LET total_slices == Len(slices)
             acc == BatchSliceLoop(slices, 1, [valid_slices |-> 0, invalid_slices |-> 0])
             valid_slices == acc.valid_slices
             invalid_slices == acc.invalid_slices
             \* valid_ratio < min_valid_ratio, error_ratio > max_error_ratio
             lowValid == valid_slices * 100 < min_valid_ratio_pct * total_slices
             highError == invalid_slices * 100 > max_error_ratio_pct * total_slices
             error == IF lowValid THEN "valid_ratio"
                      ELSE IF highError THEN "error_ratio"
                      ELSE IF valid_slices < min_slice_count THEN "min_count"
                      ELSE "none"
         IN [passed |-> error = "none", error |-> error, total_slices |-> total_slices,
             valid_slices |-> valid_slices, invalid_slices |-> invalid_slices]

\* A transcript segment dict: the keys it has, start/end in milliseconds, and its
\* text as a sequence of characters.
SegmentDict(keys, start, end, text) ==
    [keys |-> keys, start |-> start, end |-> end, text |-> text]

IsSpace(c) == c = " "

RECURSIVE LStrip(_)
LStrip(t) == IF Len(t) > 0 /\ IsSpace(Head(t)) THEN LStrip(Tail(t)) ELSE t
RECURSIVE RStrip(_)
RStrip(t) == IF Len(t) > 0 /\ IsSpace(t[Len(t)]) THEN RStrip(SubSeq(t, 1, Len(t) - 1)) ELSE t
\* str.strip()
Strip(t) == RStrip(LStrip(t))

SegAcc0 ==
    [valid_segments |-> 0, invalid_segments |-> 0, timestamp_errors |-> 0,
     text_missing |-> 0, overlap_errors |-> 0, previous_end |-> 0, total_duration |-> 0]

\* a loop that lets a segment with blank text through
SegmentStep_KeepBlank(acc, segment) ==
    IF ~({"start", "end", "text"} \subseteq segment.keys)
    THEN [acc EXCEPT !.invalid_segments = @ + 1]
    ELSE IF segment.start < 0 \/ segment.end <= segment.start
    THEN [acc EXCEPT !.timestamp_errors = @ + 1, !.invalid_segments = @ + 1]
    ELSE [acc EXCEPT !.overlap_errors = IF segment.start < acc.previous_end THEN @ + 1 ELSE @,
                     !.total_duration = @ + (segment.end - segment.start),
                     !.previous_end = segment.end,
                     !.valid_segments = @ + 1]

\* a loop that counts an overlapping segment as invalid
SegmentStep_RejectOverlap(acc, segment) ==
    IF ~({"start", "end", "text"} \subseteq segment.keys)
    THEN [acc EXCEPT !.invalid_segments = @ + 1]
    ELSE IF segment.start < 0 \/ segment.end <= segment.start
    THEN [acc EXCEPT !.timestamp_errors = @ + 1, !.invalid_segments = @ + 1]
    ELSE IF Len(Strip(segment.text)) = 0
    THEN [acc EXCEPT !.text_missing = @ + 1, !.invalid_segments = @ + 1]
    ELSE IF segment.start < acc.previous_end
    THEN [acc EXCEPT !.overlap_errors = @ + 1, !.invalid_segments = @ + 1]
    ELSE [acc EXCEPT !.total_duration = @ + (segment.end - segment.start),
                     !.previous_end = segment.end,
                     !.valid_segments = @ + 1]

\* batch_video_to_srt.py:114-150: one iteration of the loop
SegmentStep(acc, segment) ==
    IF ~({"start", "end", "text"} \subseteq segment.keys)
    THEN [acc EXCEPT !.invalid_segments = @ + 1]
    ELSE IF segment.start < 0 \/ segment.end <= segment.start
    THEN [acc EXCEPT !.timestamp_errors = @ + 1, !.invalid_segments = @ + 1]
    ELSE IF Len(Strip(segment.text)) = 0
    THEN [acc EXCEPT !.text_missing = @ + 1, !.invalid_segments = @ + 1]
    ELSE [acc EXCEPT !.overlap_errors = IF segment.start < acc.previous_end THEN @ + 1 ELSE @,
                     !.total_duration = @ + (segment.end - segment.start),
                     !.previous_end = segment.end,
                     !.valid_segments = @ + 1]

RECURSIVE SegmentLoop(_, _, _)
SegmentLoop(segments, k, acc) ==
    IF k > Len(segments) THEN acc
    ELSE SegmentLoop(segments, k + 1, SegmentStep(acc, segments[k]))

\* a gate that rejects an error ratio equal to the limit
ValidateSegmentsQuality_StrictError(segments) ==
    IF Len(segments) = 0
    THEN [passed |-> FALSE, error |-> "no_segments", acc |-> SegAcc0, total_segments |-> 0]
    ELSE LET acc == SegmentLoop(segments, 1, SegAcc0)
             total_segments == Len(segments)
             errors == acc.timestamp_errors + acc.text_missing
             error == IF acc.valid_segments < min_segments THEN "min_segments"
                      ELSE IF acc.valid_segments * 100 < seg_min_valid_ratio_pct * total_segments
                      THEN "valid_ratio"
                      ELSE IF errors * 100 >= seg_max_error_ratio_pct * total_segments
                      THEN "error_ratio"
                      ELSE "none"
         IN [passed |-> error = "none", error |-> error, acc |-> acc,
             total_segments |-> total_segments]

\* batch_video_to_srt.py:85-214
ValidateSegmentsQuality(segments) ==
    IF Len(segments) = 0
    THEN [passed |-> FALSE, error |-> "no_segments", acc |-> SegAcc0, total_segments |-> 0]
    ELSE LET acc == SegmentLoop(segments, 1, SegAcc0)
             total_segments == Len(segments)
             errors == acc.timestamp_errors + acc.text_missing
             error == IF acc.valid_segments < min_segments THEN "min_segments"
                      ELSE IF acc.valid_segments * 100 < seg_min_valid_ratio_pct * total_segments
                      THEN "valid_ratio"
                      ELSE IF errors * 100 > seg_max_error_ratio_pct * total_segments
                      THEN "error_ratio"
                      ELSE "none"
         IN [passed |-> error = "none", error |-> error, acc |-> acc,
             total_segments |-> total_segments]

\* =================================================== GoogleVideoAnalyzer
\* google_video_analyzer.py:239
IsTransient(out) == out = "transient"

\* google_video_analyzer.py:231
LoopCondition(rc) == rc < max_retries

\* an except branch that sleeps and submits again whatever the error was
SubmitStep_RetryAnyError(rc, out) ==
    IF out = "ok" THEN [next |-> "break", retry_count |-> rc]
    ELSE IF rc + 1 < max_retries
    THEN [next |-> "continue", retry_count |-> rc + 1]
    ELSE [next |-> "raise_exhausted", retry_count |-> rc + 1]

\* google_video_analyzer.py:232-248: one pass of the while body on the outcome
\* `out` of client.annotate_video: what the loop does next, and retry_count
SubmitStep(rc, out) ==
    IF out = "ok" THEN [next |-> "break", retry_count |-> rc]
    ELSE IF IsTransient(out)
    THEN IF rc + 1 < max_retries
         THEN [next |-> "continue", retry_count |-> rc + 1]
         ELSE [next |-> "raise_exhausted", retry_count |-> rc + 1]
    ELSE [next |-> "raise", retry_count |-> rc + 1]

\* google_video_analyzer.py:231-251: the submission loop run on a script of
\* annotate_video outcomes (script[k] is the outcome of the k-th submission)
RECURSIVE SubmitLoop(_, _, _)
SubmitLoop(rc, script, k) ==
    IF ~LoopCondition(rc) \/ k > Len(script) THEN "no_operation"
    ELSE LET step == SubmitStep(rc, script[k])
         IN CASE step.next = "break" -> "submitted"
              [] step.next = "continue" -> SubmitLoop(step.retry_count, script, k + 1)
              [] step.next = "raise_exhausted" -> "retry_exhausted"
              [] step.next = "raise" -> "submit_error"

SubmitOutcomes == {"ok", "transient", "other"}
SubmitScripts == [1..max_retries -> SubmitOutcomes]

\* google_video_analyzer.py:226-251 and 319-335 as process_video sees it: the
\* "error" of the dict analyze_video returns when its submissions go as `script`
\* says, or "none" when the operation was submitted (and then completes)
AnalyzeVideoError(script) ==
    LET submit == SubmitLoop(0, script, 1)
    IN IF submit # "submitted" THEN submit ELSE "none"

\* ================================================= ParallelBatchProcessor
\* parallel_batch_processor.py:207: video_name = Path(video_path).stem. The
\* paths of a batch are distinct, their stems need not be: videos 1 and 2 are
\* two files of one stem (a.mp4 and a.mov of one folder), named 1.
Stem(i) == IF i = 2 THEN 1 ELSE i

\* value of result[i] before process_video has produced one. The field `item`
\* of a result is history: the item whose coroutine produced the dict.
NoResult ==
    [success |-> FALSE, video_name |-> 0, item |-> 0, error |-> <<>>, slices_count |-> 0,
     quality |-> "none"]

\* parallel_batch_processor.py:261-293: the dict process_video returns at the end
\* of its try block; quality_check is carried in it and decides nothing.
SuccessResult(i, slices) ==
    [success |-> TRUE, video_name |-> Stem(i), item |-> i, error |-> <<>>,
     slices_count |-> Len(slices),
     quality |-> IF ParallelValidateSliceQuality(slices).passed THEN "passed" ELSE "rejected"]

\* an except branch that drops the exception's message
FailureResult_NoReason(i, reason) ==
    [success |-> FALSE, video_name |-> Stem(i), item |-> i,
     error |-> <<"process_video_failed">>, slices_count |-> 0, quality |-> "none"]

\* parallel_batch_processor.py:295-309: the dict of the except branch. The error
\* text "处理视频失败 <name>: <str(e)>" is the chain of messages it wraps.
FailureResult(i, reason) ==
    [success |-> FALSE, video_name |-> Stem(i), item |-> i,
     error |-> <<"process_video_failed">> \o reason, slices_count |-> 0, quality |-> "none"]

\* parallel_batch_processor.py:235-237: raise Exception("视频分析失败: <error>")
AnalysisFailed(error) == <<"analysis_failed", error>>

\* parallel_batch_processor.py:210-293: what process_video returns for item i;
\* valid_file is line 212-217, analysis_error the "error" of analyze_video,
\* slices the list create_slices_from_shots returned
ProcessVideoResult(i, valid_file, analysis_error, slices) ==
    IF ~valid_file THEN FailureResult(i, <<"validate_failed">>)
    ELSE IF analysis_error # "none" THEN FailureResult(i, AnalysisFailed(analysis_error))
    ELSE SuccessResult(i, slices)

\* slices create_slices_from_shots can return (parallel_video_slicer.py:319-333):
\* the successful extractions only, each an existing non-empty file.
GoodSlice == SliceDict(TRUE, TRUE, 2048, 5000)
SmallSlice == SliceDict(TRUE, TRUE, 512, 5000)
SliceLists == {<<>>, <<GoodSlice>>, <<SmallSlice>>}

\* What the collaborators of one item did, stated on their own: the file check
\* failed or a submission failed with a non-transient error ("fail"), all
\* max_retries submissions failed with a transient error ("exhausted"), or a
\* submission succeeded after transient failures only ("ok").
Fate(valid_file, script) ==
    IF ~valid_file THEN "fail"
    ELSE IF \A k \in 1..max_retries : script[k] = "transient" THEN "exhausted"
    ELSE IF \E k \in 1..max_retries :
               script[k] = "ok" /\ \A j \in 1..(k - 1) : script[j] = "transient"
    THEN "ok"
    ELSE "fail"

\* every dict process_video can return for item i, over what its collaborators
\* do (the file checks, the submissions of the analysis and the slicer), with
\* the fate that leads to it
ProcessVideoOutcomes ==
    [i \in Videos |->
        {[fate |-> Fate(valid_file, script),
          result |-> ProcessVideoResult(i, valid_file, AnalyzeVideoError(script), slices)] :
            valid_file \in BOOLEAN, script \in SubmitScripts, slices \in SliceLists}]

\* parallel_batch_processor.py:426-434: the dict appended when awaiting the
\* coroutine raises; video_name "unknown" is written 0
UnknownResult ==
    [success |-> FALSE, video_name |-> 0, item |-> 0, error |-> <<"retry_error">>,
     slices_count |-> 0, quality |-> "none"]

\* a semaphore that admits every caller
CanAcquire_Always == TRUE

\* parallel_batch_processor.py:326: async with self.semaphore (asyncio.Semaphore.acquire)
CanAcquire == semaphore > 0

\* parallel_batch_processor.py:329-361: the whole body of async_process_video is
\* inside try/except Exception (and process_video catches its own), so no
\* exception leaves the decorated function.
AsyncBodyRaised == FALSE

\* parallel_batch_processor.py:311-314: tenacity's decision after one attempt
RetryDecision(raised, attempt) ==
    IF ~raised THEN "return"
    ELSE IF attempt >= stop_after_attempt THEN "retry_error"
    ELSE "retry"

\* self.stats["processing_errors"].append(...): the list is kept as the number
\* of entries per video (an entry's text is that video's result error)
AppendError(st, video) ==
    [st EXCEPT !.processing_errors = [@ EXCEPT ![video] = @ + 1]]

\* an aggregation that forgets to count a failed item
AggregateStats_NoFailedCount(st, r) ==
    IF r.success
    THEN [st EXCEPT !.processed_videos = @ + 1]
    ELSE AppendError(st, r.video_name)

\* parallel_batch_processor.py:404-412 without the total_slices update of line 406
AggregateStats(st, r) ==
    IF r.success
    THEN [st EXCEPT !.processed_videos = @ + 1]
    ELSE AppendError([st EXCEPT !.failed_videos = @ + 1], r.video_name)

\* parallel_batch_processor.py:75-82
Stats0 ==
    [total_videos |-> 0, processed_videos |-> 0, failed_videos |-> 0,
     total_slices |-> 0, processing_errors |-> [v \in Videos |-> 0]]

\* value of a verdict variable before its gate has run
NoVerdict == [passed |-> FALSE, error |-> "unset"]

\* value of an_result before analyze_video has returned
NoAnalysis == [success |-> FALSE, error |-> "unset", cleanup_performed |-> FALSE]

\* the parts of the system a specification does not exercise stay as they are
GateIdle ==
    /\ gate_slices = <<>> /\ gate_segments = <<>>
    /\ verdictP = NoVerdict /\ verdictB = NoVerdict /\ verdictT = NoVerdict

SlicerIdle ==
    /\ seg_pc = <<>> /\ seg_out = <<>> /\ seg_result = <<>>
    /\ slice_results = <<>> /\ slicer_pc = "idle" /\ max_workers = 0

AnalyzerIdle ==
    /\ an_pc = "idle" /\ an_args = [auto_cleanup_storage |-> FALSE, input |-> "none"]
    /\ retry_count = 0 /\ elapsed = 0 /\ uploaded = FALSE /\ blob = FALSE
    /\ an_error = "none" /\ an_result = NoAnalysis /\ an_subs = <<>> /\ an_deletes = 0

ShotsIdle ==
    /\ sh_pc = "idle" /\ sh_args = [duration |-> 0, segment_duration |-> 0]
    /\ current_time = 0 /\ index = 0 /\ shots = <<>>

ItemIdle ==
    /\ pv_pc = "idle" /\ pv_shots = <<>> /\ pv_fallback = "unset" /\ pv_outcomes = <<>>
    /\ pv_slices = <<>> /\ pv_quality = NoVerdict /\ pv_manifest = FALSE
    /\ pv_error = <<>> /\ pv_result = NoResult

SeqIdle ==
    /\ sq_pc = "idle" /\ sq_shots = <<>> /\ sq_i = 0 /\ sq_outcomes = <<>>
    /\ sq_slices = <<>> /\ sq_quality = NoVerdict /\ sq_manifest = FALSE
    /\ sq_result = NoResult

\* value of en_result before the entry point has returned
NoReturn == [kind |-> "none", success |-> FALSE, error |-> "none"]

EntryIdle ==
    /\ en_pc = "idle" /\ en_entry = "none" /\ en_input = "none" /\ en_files = {}
    /\ en_video_files = {} /\ en_outdir = FALSE /\ en_processed = 0
    /\ en_report = FALSE /\ en_result = NoReturn

PoolIdle == pl_workers = 0 /\ pl_pc = <<>> /\ pl_task = <<>> /\ pl_queue = <<>>

\* value of ex_result before the batch function was called
NoBatchResult ==
    [kind |-> "none", success |-> FALSE, total_files |-> 0, success_count |-> 0,
     failed_count |-> 0, quality_rejected_count |-> 0]

ExitIdle ==
    /\ ex_main = "none" /\ ex_pc = "idle" /\ ex_input = "none" /\ ex_credentials = FALSE
    /\ ex_items = <<>> /\ ex_result = NoBatchResult /\ ex_status = -1

\* value of trans_result before transcribe_audio has returned
NoTranscription == [success |-> FALSE, segments |-> <<>>, error |-> "none"]

\* value of tr_result before a return statement was reached
NoDetails == [success |-> FALSE, quality_rejected |-> FALSE, error_type |-> "none"]

TransIdle ==
    /\ tr_pc = "idle" /\ tr_remote = "none" /\ tr_trans_result = NoTranscription
    /\ tr_quality = NoVerdict /\ tr_srt_file = "absent"
    /\ tr_result = NoDetails /\ tr_counted = "none"

RepeatIdle ==
    /\ rp_gate = "none" /\ rp_slices = <<>> /\ rp_segments = <<>> /\ rp_given = <<>>
    /\ rp_clock = 0 /\ rp_verdicts = <<>>

PathsIdle == pa_pipeline = "none" /\ pa_files = <<>> /\ pa_paths = <<>>

SrtIdle == sr_pc = "idle" /\ sr_segments = <<>> /\ sr_srt = <<>> /\ sr_parsed = <<>>

ReuseIdle ==
    /\ ru_kind = "none" /\ ru_pc = "idle" /\ ru_stats = Stats0 /\ ru_left = 0 /\ ru_runs = 0

LoopIdle ==
    /\ sb_pc = "idle" /\ sb_files = <<>> /\ sb_i = 0 /\ sb_disk = <<>>
    /\ sb_results = <<>> /\ sb_log = <<>> /\ sb_hist = <<>>

StampIdle == ts_ms = 0 /\ ts_dash = <<>> /\ ts_srt = <<>>

\* ---- the idle values taken together
LaterIdle == PoolIdle /\ ExitIdle /\ TransIdle /\ RepeatIdle /\ PathsIdle /\ SrtIdle /\ ReuseIdle /\ LoopIdle /\ StampIdle
\* ---- end of the idle values

ExtIdle == ShotsIdle /\ ItemIdle /\ SeqIdle /\ EntryIdle /\ LaterIdle

\* parallel_batch_processor.py:51-84: the processor after __init__, its
\* coroutines not yet started
BatchInit ==
    /\ max_concurrent \in 1..MaxConcurrent
    /\ semaphore = max_concurrent
    /\ stats = Stats0
    /\ results = <<>>
    /\ completed = 0
    /\ mainpc = "init"
    /\ maintmp = 0
    /\ report = Stats0
    /\ pc = [i \in Videos |-> "queued"]
    /\ result = [i \in Videos |-> NoResult]
    /\ tmp = [i \in Videos |-> 0]
    /\ attempts = [i \in Videos |-> 0]
    /\ fate = [i \in Videos |-> "unset"]
    /\ applied = 0

Init == BatchInit /\ GateIdle /\ SlicerIdle /\ AnalyzerIdle /\ ExtIdle

\* parallel_batch_processor.py:377-391
StartBatch ==
    /\ mainpc = "init"
    /\ stats' = [stats EXCEPT !.total_videos = NumVideos]
    /\ mainpc' = "collecting"
    /\ UNCHANGED <<max_concurrent, semaphore, results, completed, maintmp, report, pc,
                   result, tmp, attempts, fate, applied>>
    /\ UNCHANGED <<gateVars, slicerVars, analyzerVars, extVars>>

\* parallel_batch_processor.py:326-340: the coroutine of item i enters the
\* semaphore and hands process_video to the executor (event loop)
AcquireSemaphore(i) ==
    /\ mainpc = "collecting"
    /\ pc[i] = "queued"
    /\ CanAcquire
    /\ semaphore' = semaphore - 1
    /\ pc' = [pc EXCEPT ![i] = "process"]
    /\ attempts' = [attempts EXCEPT ![i] = @ + 1]
    /\ UNCHANGED <<max_concurrent, stats, results, completed, mainpc, maintmp, report,
                   result, tmp, fate, applied>>
    /\ UNCHANGED <<gateVars, slicerVars, analyzerVars, extVars>>

\* parallel_batch_processor.py:196-309 up to its first access of the shared
\* stats (executor thread): on a failure the except branch appends to
\* processing_errors and returns; otherwise line 282 reads stats["total_slices"]
ProcessVideo(i) ==
    /\ pc[i] = "process"
    /\ \E o \in ProcessVideoOutcomes[i] : LET r == o.result IN
          /\ result' = [result EXCEPT ![i] = r]
          /\ fate' = [fate EXCEPT ![i] = o.fate]
          /\ IF r.success
             THEN /\ tmp' = [tmp EXCEPT ![i] = stats.total_slices]
                  /\ pc' = [pc EXCEPT ![i] = "stats_write"]
                  /\ UNCHANGED stats
             ELSE /\ stats' = AppendError(stats, r.video_name)
                  /\ pc' = [pc EXCEPT ![i] = "returned"]
                  /\ UNCHANGED tmp
    /\ UNCHANGED <<max_concurrent, semaphore, results, completed, mainpc, maintmp,
                   report, attempts, applied>>
    /\ UNCHANGED <<gateVars, slicerVars, analyzerVars, extVars>>

\* parallel_batch_processor.py:282-293: the store of line 282, then return
\* (executor thread)
WriteStats(i) ==
    /\ pc[i] = "stats_write"
    /\ stats' = [stats EXCEPT !.total_slices = tmp[i] + result[i].slices_count]
    /\ applied' = applied + result[i].slices_count
    /\ tmp' = [tmp EXCEPT ![i] = 0]
    /\ pc' = [pc EXCEPT ![i] = "returned"]
    /\ UNCHANGED <<max_concurrent, semaphore, results, completed, mainpc, maintmp, report,
                   result, attempts, fate>>
    /\ UNCHANGED <<gateVars, slicerVars, analyzerVars, extVars>>

\* parallel_batch_processor.py:311-361: run_in_executor resolves, the coroutine
\* leaves the semaphore and tenacity decides: return the dict, run the body
\* again, or raise RetryError (event loop)
ReleaseSemaphore(i) ==
    /\ mainpc = "collecting"
    /\ pc[i] = "returned"
    /\ semaphore' = semaphore + 1
    /\ LET decision == RetryDecision(AsyncBodyRaised, attempts[i])
       IN pc' = [pc EXCEPT ![i] = CASE decision = "return" -> "completed"
                                    [] decision = "retry" -> "queued"
                                    [] decision = "retry_error" -> "raised"]
    /\ UNCHANGED <<max_concurrent, stats, results, completed, mainpc, maintmp, report,
                   result, tmp, attempts, fate, applied>>
    /\ UNCHANGED <<gateVars, slicerVars, analyzerVars, extVars>>

\* parallel_batch_processor.py:397-435: as_completed yields a finished item; its
\* result is appended and counted, and for a success line 406 reads
\* total_slices; if awaiting it raised, the except branch appends a dict and
\* counts nothing
AggregateResult(i) ==
    /\ mainpc = "collecting"
    /\ pc[i] \in {"completed", "raised"}
    /\ completed' = completed + 1
    /\ pc' = [pc EXCEPT ![i] = "aggregated"]
    /\ IF pc[i] = "raised"
       THEN /\ results' = Append(results, UnknownResult)
            /\ UNCHANGED <<stats, maintmp, mainpc>>
       ELSE /\ results' = Append(results, result[i])
            /\ stats' = AggregateStats(stats, result[i])
            /\ IF result[i].success
               THEN /\ maintmp' = stats.total_slices
                    /\ mainpc' = "add_slices"
               ELSE UNCHANGED <<maintmp, mainpc>>
    /\ UNCHANGED <<max_concurrent, semaphore, report, result, tmp, attempts, fate, applied>>
    /\ UNCHANGED <<gateVars, slicerVars, analyzerVars, extVars>>

\* parallel_batch_processor.py:406: the store of total_slices += slices_count
AggregateWrite ==
    /\ mainpc = "add_slices"
    /\ stats' = [stats EXCEPT !.total_slices = maintmp + results[Len(results)].slices_count]
    /\ applied' = applied + results[Len(results)].slices_count
    /\ maintmp' = 0
    /\ mainpc' = "collecting"
    /\ UNCHANGED <<max_concurrent, semaphore, results, completed, report, pc,
                   result, tmp, attempts, fate>>
    /\ UNCHANGED <<gateVars, slicerVars, analyzerVars, extVars>>

\* parallel_batch_processor.py:437-463: every task was yielded; the report is built
FinishBatch ==
    /\ mainpc = "collecting"
    /\ completed = NumVideos
    /\ report' = stats
    /\ mainpc' = "done"
    /\ UNCHANGED <<max_concurrent, semaphore, stats, results, completed, maintmp, pc,
                   result, tmp, attempts, fate, applied>>
    /\ UNCHANGED <<gateVars, slicerVars, analyzerVars, extVars>>

Next ==
    \/ StartBatch
    \/ \E i \in Videos : AcquireSemaphore(i)
    \/ \E i \in Videos : ProcessVideo(i)
    \/ \E i \in Videos : WriteStats(i)
    \/ \E i \in Videos : ReleaseSemaphore(i)
    \/ \E i \in Videos : AggregateResult(i)
    \/ AggregateWrite
    \/ FinishBatch

Spec == Init /\ [][Next]_vars

\* ================================================== quality gates applied
\* a batch processor that is not running
BatchIdle ==
    /\ max_concurrent = 0 /\ semaphore = 0 /\ stats = Stats0 /\ results = <<>>
    /\ completed = 0 /\ mainpc = "idle" /\ maintmp = 0 /\ report = Stats0
    /\ pc = [i \in Videos |-> "queued"] /\ result = [i \in Videos |-> NoResult]
    /\ tmp = [i \in Videos |-> 0] /\ attempts = [i \in Videos |-> 0]
    /\ fate = [i \in Videos |-> "unset"] /\ applied = 0

\* ---- all but one part of the system idle
IdleBesidesPool == BatchIdle /\ GateIdle /\ SlicerIdle /\ AnalyzerIdle /\ ShotsIdle /\
    ItemIdle /\ SeqIdle /\ EntryIdle /\ ExitIdle /\ TransIdle /\ RepeatIdle /\
    PathsIdle /\ SrtIdle /\ ReuseIdle /\ LoopIdle /\ StampIdle
IdleBesidesExit == BatchIdle /\ GateIdle /\ SlicerIdle /\ AnalyzerIdle /\ ShotsIdle /\
    ItemIdle /\ SeqIdle /\ EntryIdle /\ PoolIdle /\ TransIdle /\ RepeatIdle /\
    PathsIdle /\ SrtIdle /\ ReuseIdle /\ LoopIdle /\ StampIdle
IdleBesidesTrans == BatchIdle /\ GateIdle /\ SlicerIdle /\ AnalyzerIdle /\ ShotsIdle /\
    ItemIdle /\ SeqIdle /\ EntryIdle /\ PoolIdle /\ ExitIdle /\ RepeatIdle /\
    PathsIdle /\ SrtIdle /\ ReuseIdle /\ LoopIdle /\ StampIdle
IdleBesidesRepeat == BatchIdle /\ GateIdle /\ SlicerIdle /\ AnalyzerIdle /\
    ShotsIdle /\ ItemIdle /\ SeqIdle /\ EntryIdle /\ PoolIdle /\ ExitIdle /\
    TransIdle /\ PathsIdle /\ SrtIdle /\ ReuseIdle /\ LoopIdle /\ StampIdle
IdleBesidesPaths == BatchIdle /\ GateIdle /\ SlicerIdle /\ AnalyzerIdle /\ ShotsIdle /\
    ItemIdle /\ SeqIdle /\ EntryIdle /\ PoolIdle /\ ExitIdle /\ TransIdle /\
    RepeatIdle /\ SrtIdle /\ ReuseIdle /\ LoopIdle /\ StampIdle
IdleBesidesSrt == BatchIdle /\ GateIdle /\ SlicerIdle /\ AnalyzerIdle /\ ShotsIdle /\
    ItemIdle /\ SeqIdle /\ EntryIdle /\ PoolIdle /\ ExitIdle /\ TransIdle /\
    RepeatIdle /\ PathsIdle /\ ReuseIdle /\ LoopIdle /\ StampIdle
IdleBesidesReuse == BatchIdle /\ GateIdle /\ SlicerIdle /\ AnalyzerIdle /\ ShotsIdle /\
    ItemIdle /\ SeqIdle /\ EntryIdle /\ PoolIdle /\ ExitIdle /\ TransIdle /\
    RepeatIdle /\ PathsIdle /\ SrtIdle /\ LoopIdle /\ StampIdle
IdleBesidesLoop == BatchIdle /\ GateIdle /\ SlicerIdle /\ AnalyzerIdle /\ ShotsIdle /\
    ItemIdle /\ SeqIdle /\ EntryIdle /\ PoolIdle /\ ExitIdle /\ TransIdle /\
    RepeatIdle /\ PathsIdle /\ SrtIdle /\ ReuseIdle /\ StampIdle
IdleBesidesStamp == BatchIdle /\ GateIdle /\ SlicerIdle /\ AnalyzerIdle /\ ShotsIdle /\
    ItemIdle /\ SeqIdle /\ EntryIdle /\ PoolIdle /\ ExitIdle /\ TransIdle /\
    RepeatIdle /\ PathsIdle /\ SrtIdle /\ ReuseIdle /\ LoopIdle
\* ---- end of the idle parts

\* the class of the k-th element of a list that has c[1] elements of class 1,
\* then c[2] of class 2, and so on
RECURSIVE SumTo(_, _)
SumTo(c, j) == IF j = 0 THEN 0 ELSE c[j] + SumTo(c, j - 1)
ClassAt(c, k) == CHOOSE j \in DOMAIN c : SumTo(c, j - 1) < k /\ k <= SumTo(c, j)
Counts(classes, max) == {c \in [1..classes -> 0..max] : SumTo(c, classes) <= max}

\* slice dicts the gates can be handed: a good file, a file below the size
\* limit, a file of exactly the size limit, a file with a duration above the
\* limit, and a dict whose file does not exist
EdgeSlice == SliceDict(TRUE, TRUE, min_file_size, 5000)
LongSlice == SliceDict(TRUE, TRUE, 2048, max_slice_duration * 1000 + 1)
MissingSlice == SliceDict(TRUE, FALSE, 0, 5000)
SliceClasses == <<GoodSlice, SmallSlice, EdgeSlice, LongSlice, MissingSlice>>
SliceInputs ==
    {[k \in 1..SumTo(c, Len(SliceClasses)) |-> SliceClasses[ClassAt(c, k)]] :
        c \in Counts(Len(SliceClasses), MaxSlices)}

\* transcript segments the gate can be handed, by position k in the list (times
\* in milliseconds): a segment following the previous one, a segment with
\* padded text that overlaps the previous ones, a segment without 'text', a
\* segment that ends where it starts and has blank text, and a segment whose
\* text is blank
SegmentOfClass(j, k) ==
    CASE j = "plain" ->
            SegmentDict({"start", "end", "text"}, (k - 1) * 1000, k * 1000, <<"h", "i">>)
      [] j = "overlap" ->
            SegmentDict({"start", "end", "text"}, 0, k * 1000, <<" ", "a", " ">>)
      [] j = "no_text" ->
            SegmentDict({"start", "end"}, (k - 1) * 1000, k * 1000, <<>>)
      [] j = "bad_time" ->
            SegmentDict({"start", "end", "text"}, k * 1000, k * 1000, <<" ">>)
      [] j = "blank" ->
            SegmentDict({"start", "end", "text"}, (k - 1) * 1000, k * 1000, <<" ", " ">>)
SegmentClasses == <<"plain", "overlap", "no_text", "bad_time", "blank">>
SegmentInputs ==
    {[k \in 1..SumTo(c, Len(SegmentClasses)) |-> SegmentOfClass(SegmentClasses[ClassAt(c, k)], k)] :
        c \in Counts(Len(SegmentClasses), MaxSegments)}

\* a list of slices or a list of segments is handed to the gates
GateInit ==
    /\ \/ gate_slices \in SliceInputs /\ gate_segments = <<>>
       \/ gate_slices = <<>> /\ gate_segments \in SegmentInputs
    /\ verdictP = NoVerdict /\ verdictB = NoVerdict /\ verdictT = NoVerdict

InitGate == GateInit /\ BatchIdle /\ SlicerIdle /\ AnalyzerIdle /\ ExtIdle

\* parallel_batch_processor.py:159-194
ValidateSliceQualityParallel ==
    /\ verdictP = NoVerdict
    /\ verdictP' = ParallelValidateSliceQuality(gate_slices)
    /\ UNCHANGED <<gate_slices, gate_segments, verdictB, verdictT>>
    /\ UNCHANGED <<batchVars, slicerVars, analyzerVars, extVars>>

\* batch_video_to_slice.py:76-194
ValidateSliceQualityBatch ==
    /\ verdictB = NoVerdict
    /\ verdictB' = BatchValidateSliceQuality(gate_slices)
    /\ UNCHANGED <<gate_slices, gate_segments, verdictP, verdictT>>
    /\ UNCHANGED <<batchVars, slicerVars, analyzerVars, extVars>>

\* batch_video_to_srt.py:85-214
ValidateSegments ==
    /\ verdictT = NoVerdict
    /\ verdictT' = ValidateSegmentsQuality(gate_segments)
    /\ UNCHANGED <<gate_slices, gate_segments, verdictP, verdictB>>
    /\ UNCHANGED <<batchVars, slicerVars, analyzerVars, extVars>>

NextGate ==
    \/ ValidateSliceQualityParallel
    \/ ValidateSliceQualityBatch
    \/ ValidateSegments

SpecGate == InitGate /\ [][NextGate]_vars

\* ============================================ analyze_video, step by step
\* google_video_analyzer.py:258-259
timeout == 1200
check_interval == 10

\* the arguments of one call: auto_cleanup_storage, and whether video_path is
\* an existing file of at most 50 MB ("small"), a larger one ("large"), or
\* absent with a video_uri given ("uri") or not ("none")
AnalyzeArgs == [auto_cleanup_storage : BOOLEAN, input : {"small", "large", "uri", "none"}]

\* google_video_analyzer.py:180: the file goes through Cloud Storage
NeedsUpload(args) ==
    /\ args.input \in {"small", "large"}
    /\ args.auto_cleanup_storage \/ args.input = "large"

\* google_video_analyzer.py:294 and 323: the condition of both clean-ups
CleanupCondition == an_args.auto_cleanup_storage /\ uploaded

AnalyzerInit ==
    /\ an_pc = "check_network"
    /\ an_args \in AnalyzeArgs
    /\ retry_count = 0 /\ elapsed = 0 /\ uploaded = FALSE /\ blob = FALSE
    /\ an_error = "none" /\ an_result = NoAnalysis /\ an_subs = <<>> /\ an_deletes = 0

InitAnalyze == AnalyzerInit /\ BatchIdle /\ GateIdle /\ SlicerIdle /\ ExtIdle

\* google_video_analyzer.py:118-137: the connectivity probe; when it fails the
\* call returns at once
CheckNetwork ==
    /\ an_pc = "check_network"
    /\ \E reachable \in BOOLEAN :
          IF reachable
          THEN an_pc' = "build_request" /\ UNCHANGED an_result
          ELSE /\ an_pc' = "returned"
               /\ an_result' = [success |-> FALSE, error |-> "no_network",
                                cleanup_performed |-> FALSE]
    /\ UNCHANGED <<an_args, retry_count, elapsed, uploaded, blob, an_error, an_subs, an_deletes>>
    /\ UNCHANGED <<batchVars, gateVars, slicerVars, extVars>>

\* google_video_analyzer.py:139-219: the request is built; a file that needs it
\* is uploaded first (uploaded_blob_name is set before the upload is tried)
BuildRequest ==
    /\ an_pc = "build_request"
    /\ IF an_args.input = "none"
       THEN /\ an_pc' = "except" /\ an_error' = "no_input"
            /\ UNCHANGED <<uploaded, blob>>
       ELSE IF ~NeedsUpload(an_args)
       THEN /\ an_pc' = "submit"
            /\ UNCHANGED <<uploaded, blob, an_error>>
       ELSE \E bucket_ok \in BOOLEAN, upload_ok \in BOOLEAN :
               IF ~bucket_ok
               THEN /\ an_pc' = "except" /\ an_error' = "no_bucket"
                    /\ UNCHANGED <<uploaded, blob>>
               ELSE /\ uploaded' = TRUE
                    /\ blob' = upload_ok
                    /\ IF upload_ok
                       THEN an_pc' = "submit" /\ UNCHANGED an_error
                       ELSE an_pc' = "except" /\ an_error' = "upload_failed"
    /\ UNCHANGED <<an_args, retry_count, elapsed, an_result, an_subs, an_deletes>>
    /\ UNCHANGED <<batchVars, gateVars, slicerVars, extVars>>

\* google_video_analyzer.py:231-251: one pass of the submission loop: a call of
\* client.annotate_video and what the except branch makes of its outcome
Submit ==
    /\ an_pc = "submit"
    /\ LoopCondition(retry_count)
    /\ \E out \in SubmitOutcomes : LET step == SubmitStep(retry_count, out) IN
          /\ an_subs' = Append(an_subs, out)
          /\ retry_count' = step.retry_count
          /\ CASE step.next = "break" -> an_pc' = "wait" /\ UNCHANGED an_error
               [] step.next = "continue" -> an_pc' = "submit" /\ UNCHANGED an_error
               [] step.next = "raise_exhausted" ->
                      an_pc' = "except" /\ an_error' = "retry_exhausted"
               [] step.next = "raise" -> an_pc' = "except" /\ an_error' = "submit_error"
    /\ UNCHANGED <<an_args, elapsed, uploaded, blob, an_result, an_deletes>>
    /\ UNCHANGED <<batchVars, gateVars, slicerVars, extVars>>

\* a waiting loop that starts its clock again where it should give up
WaitStep_RestartClock(e) ==
    IF e > timeout
    THEN [next |-> "sleep", elapsed |-> 0]
    ELSE [next |-> "sleep", elapsed |-> e + check_interval]

\* google_video_analyzer.py:265-289: one pass of the waiting loop with e
\* seconds gone: TimeoutError is raised, or the loop sleeps check_interval
\* seconds and tests operation.done() again
WaitStep(e) ==
    IF e > timeout
    THEN [next |-> "raise_timeout", elapsed |-> e]
    ELSE [next |-> "sleep", elapsed |-> e + check_interval]

\* google_video_analyzer.py:264-289: one pass of the waiting loop while the
\* operation is not done
Wait ==
    /\ an_pc = "wait"
    /\ elapsed' = WaitStep(elapsed).elapsed
    /\ IF WaitStep(elapsed).next = "raise_timeout"
       THEN an_pc' = "except" /\ an_error' = "timeout"
       ELSE UNCHANGED <<an_pc, an_error>>
    /\ UNCHANGED <<an_args, retry_count, uploaded, blob, an_result, an_subs, an_deletes>>
    /\ UNCHANGED <<batchVars, gateVars, slicerVars, extVars>>

\* google_video_analyzer.py:264, 291-315: the operation is done; its result is
\* fetched (or raises), the uploaded file is deleted if asked for, and the
\* call returns
Complete ==
    /\ an_pc = "wait"
    /\ \E result_ok \in BOOLEAN, delete_ok \in BOOLEAN :
          IF ~result_ok
          THEN /\ an_pc' = "except" /\ an_error' = "analysis_error"
               /\ UNCHANGED <<blob, an_result, an_deletes>>
          ELSE /\ an_pc' = "returned"
               /\ blob' = IF CleanupCondition /\ delete_ok THEN FALSE ELSE blob
               /\ an_deletes' = IF CleanupCondition THEN an_deletes + 1 ELSE an_deletes
               /\ an_result' = [success |-> TRUE, error |-> "none",
                                cleanup_performed |-> CleanupCondition]
               /\ UNCHANGED an_error
    /\ UNCHANGED <<an_args, retry_count, elapsed, uploaded, an_subs>>
    /\ UNCHANGED <<batchVars, gateVars, slicerVars, extVars>>

\* google_video_analyzer.py:319-335: the outer except branch
HandleError ==
    /\ an_pc = "except"
    /\ \E delete_ok \in BOOLEAN :
          blob' = IF CleanupCondition /\ delete_ok THEN FALSE ELSE blob
    /\ an_deletes' = IF CleanupCondition THEN an_deletes + 1 ELSE an_deletes
    /\ an_result' = [success |-> FALSE, error |-> an_error, cleanup_performed |-> FALSE]
    /\ an_error' = "none"
    /\ an_pc' = "returned"
    /\ UNCHANGED <<an_args, retry_count, elapsed, uploaded, an_subs>>
    /\ UNCHANGED <<batchVars, gateVars, slicerVars, extVars>>

NextAnalyze ==
    \/ CheckNetwork
    \/ BuildRequest
    \/ Submit
    \/ Wait
    \/ Complete
    \/ HandleError

SpecAnalyze == InitAnalyze /\ [][NextAnalyze]_vars

\* analyze_video runs in one thread that is never suspended for ever: as long as
\* the call has not returned, it takes its next step
SpecAnalyzeLive == SpecAnalyze /\ WF_vars(NextAnalyze)

\* ===================================== ParallelVideoSlicer, its thread pool
Segments == 1..NumSegments

\* the segments argument of extract_segments_parallel, times in milliseconds:
\* the first range is half a second long, every other one five seconds
SubmittedSegment(k) ==
    IF k = 1 THEN [index |-> 1, start_time |-> 0, end_time |-> 500]
    ELSE [index |-> k, start_time |-> (k - 1) * 5000, end_time |-> k * 5000]

\* what one encoder invocation can do: exit 0 with an output file above 1024
\* bytes, exit 0 with a non-empty output file of at most 1024 bytes, exit
\* non-zero, exit 0 leaving no or an empty file, run into the subprocess
\* timeout (an encoder that does not exit in time), raise another exception
\* inside the try block, or raise before the try block is entered
\* (parallel_video_slicer.py:63-71)
EncoderOutcomes ==
    {"ok", "ok_small", "nonzero", "empty_output", "timeout", "error", "raise_early"}

\* os.path.getsize(output_path) after the encoder left a non-empty file
OutputSize(out) == IF out = "ok" THEN 2048 ELSE 512

\* value of seg_result[k] while the future is not done
NoFuture ==
    [kind |-> "none", success |-> FALSE, segment_index |-> 0, error |-> "none",
     file_size |-> 0, duration |-> 0]

\* parallel_video_slicer.py:109-158: a failure dict of _extract_single_segment
SegmentFailure(seg, error) ==
    [kind |-> "value", success |-> FALSE, segment_index |-> seg.index, error |-> error,
     file_size |-> 0, duration |-> 0]

\* parallel_video_slicer.py:54-158: what the future of segment seg holds once
\* _extract_single_segment ran with encoder outcome `out`: the dict it
\* returned, or the exception that left it
ExtractSingleSegment(seg, out) ==
    CASE out \in {"ok", "ok_small"} ->
            [kind |-> "value", success |-> TRUE, segment_index |-> seg.index,
             error |-> "none", file_size |-> OutputSize(out),
             duration |-> seg.end_time - seg.start_time]
      [] out = "nonzero" -> SegmentFailure(seg, "ffmpeg_failed")
      [] out = "empty_output" -> SegmentFailure(seg, "empty_or_missing")
      [] out = "timeout" -> SegmentFailure(seg, "ffmpeg_timeout")
      [] out = "error" -> SegmentFailure(seg, "exception")
      [] out = "raise_early" ->
            [kind |-> "exception", success |-> FALSE, segment_index |-> seg.index,
             error |-> "exception", file_size |-> 0, duration |-> 0]

\* the dict a done future holds
FutureValue(f) ==
    [success |-> f.success, segment_index |-> f.segment_index, error |-> f.error,
     file_size |-> f.file_size, duration |-> f.duration]

\* a collector that drops a future whose task raised
CollectFuture_DropException(res, f) ==
    IF f.kind = "value"
    THEN Append(res, FutureValue(f))
    ELSE res

\* parallel_video_slicer.py:207-237: one pass of the as_completed loop on a
\* done future f: its dict is appended, or, if future.result() raises, a
\* failure dict with segment_index -1
CollectFuture(res, f) ==
    IF f.kind = "value"
    THEN Append(res, FutureValue(f))
    ELSE Append(res, [success |-> FALSE, segment_index |-> -1, error |-> f.error,
                      file_size |-> 0, duration |-> 0])

\* parallel_video_slicer.py:323-331: the slice dict made of a successful result;
\* its file exists when the list is returned
SliceOfResult(r) ==
    [has_path |-> TRUE, exists |-> TRUE, size |-> r.file_size, duration |-> r.duration,
     segment_index |-> r.segment_index]

IsSuccess(r) == r.success

\* parallel_video_slicer.py:319-333: the successful results, in the order of
\* the results list
CreateSlicesFromShots(res) ==
    LET kept == SelectSeq(res, IsSuccess)
    IN [k \in 1..Len(kept) |-> SliceOfResult(kept[k])]

NumRunning == Cardinality({k \in DOMAIN seg_pc : seg_pc[k] = "running"})

\* parallel_video_slicer.py:28-45: the slicer after __init__, about to be
\* called with NumSegments segments
SlicerInit ==
    /\ max_workers \in 1..MaxWorkers
    /\ seg_pc = <<>> /\ seg_out = <<>> /\ seg_result = <<>>
    /\ slice_results = <<>> /\ slicer_pc = "submit"

InitSlicer == SlicerInit /\ BatchIdle /\ GateIdle /\ AnalyzerIdle /\ ExtIdle

\* parallel_video_slicer.py:188-205: every segment is submitted to the pool
SubmitSegments ==
    /\ slicer_pc = "submit"
    /\ seg_pc' = [k \in Segments |-> "pending"]
    /\ seg_out' = [k \in Segments |-> "none"]
    /\ seg_result' = [k \in Segments |-> NoFuture]
    /\ slicer_pc' = "collecting"
    /\ UNCHANGED <<slice_results, max_workers>>
    /\ UNCHANGED <<batchVars, gateVars, analyzerVars, extVars>>

\* ThreadPoolExecutor: a free worker thread takes the oldest pending task
StartSegment(k) ==
    /\ slicer_pc = "collecting"
    /\ seg_pc[k] = "pending"
    /\ \A j \in 1..(k - 1) : seg_pc[j] # "pending"
    /\ NumRunning < max_workers
    /\ seg_pc' = [seg_pc EXCEPT ![k] = "running"]
    /\ UNCHANGED <<seg_out, seg_result, slice_results, slicer_pc, max_workers>>
    /\ UNCHANGED <<batchVars, gateVars, analyzerVars, extVars>>

\* parallel_video_slicer.py:54-158: the task of segment k runs its encoder and
\* ends; the worker thread is free again
FinishSegment(k) ==
    /\ slicer_pc = "collecting"
    /\ seg_pc[k] = "running"
    /\ \E out \in EncoderOutcomes :
          /\ seg_out' = [seg_out EXCEPT ![k] = out]
          /\ seg_result' = [seg_result EXCEPT ![k] = ExtractSingleSegment(SubmittedSegment(k), out)]
    /\ seg_pc' = [seg_pc EXCEPT ![k] = "finished"]
    /\ UNCHANGED <<slice_results, slicer_pc, max_workers>>
    /\ UNCHANGED <<batchVars, gateVars, analyzerVars, extVars>>

\* parallel_video_slicer.py:207-237: as_completed yields the done future of
\* segment k
CollectSegment(k) ==
    /\ slicer_pc = "collecting"
    /\ seg_pc[k] = "finished"
    /\ slice_results' = CollectFuture(slice_results, seg_result[k])
    /\ seg_pc' = [seg_pc EXCEPT ![k] = "collected"]
    /\ UNCHANGED <<seg_out, seg_result, slicer_pc, max_workers>>
    /\ UNCHANGED <<batchVars, gateVars, analyzerVars, extVars>>

\* parallel_video_slicer.py:239-261: as_completed is exhausted; return results
ReturnResults ==
    /\ slicer_pc = "collecting"
    /\ \A k \in Segments : seg_pc[k] = "collected"
    /\ slicer_pc' = "returned"
    /\ UNCHANGED <<seg_pc, seg_out, seg_result, slice_results, max_workers>>
    /\ UNCHANGED <<batchVars, gateVars, analyzerVars, extVars>>

\* parallel_video_slicer.py:311-333: create_slices_from_shots turns the results
\* into the slice list it returns to process_video
CreateSlices ==
    /\ slicer_pc = "returned"
    /\ gate_slices' = CreateSlicesFromShots(slice_results)
    /\ slicer_pc' = "converted"
    /\ UNCHANGED <<seg_pc, seg_out, seg_result, slice_results, max_workers>>
    /\ UNCHANGED <<gate_segments, verdictP, verdictB, verdictT>>
    /\ UNCHANGED <<batchVars, analyzerVars, extVars>>

NextSlicer ==
    \/ SubmitSegments
    \/ \E k \in Segments : StartSegment(k)
    \/ \E k \in Segments : FinishSegment(k)
    \/ \E k \in Segments : CollectSegment(k)
    \/ ReturnResults
    \/ CreateSlices

SpecSlicer == InitSlicer /\ [][NextSlicer]_vars

\* ================================================ _create_default_shots
\* Python floats, with a significand of FloatBits bits instead of 53. A float is
\* written as the number of seconds it stands for; the format is scaled so that
\* every whole number below 2^FloatBits is a float, and above that only every
\* second, then every fourth, ... whole number is.
RECURSIVE Ulp(_, _)
Ulp(x, u) == IF x < u * 2^FloatBits THEN u ELSE Ulp(x, 2 * u)

\* the float nearest to the real number x, ties to the even significand
RoundToFloat(x) ==
    LET u == Ulp(x, 1)
        q == x \div u
        r == x % u
    IN IF 2 * r < u THEN q * u
       ELSE IF 2 * r > u THEN (q + 1) * u
       ELSE IF q % 2 = 0 THEN q * u ELSE (q + 1) * u

IsFloat(x) == RoundToFloat(x) = x

\* float addition: the exact sum, rounded
FloatAdd(a, b) == RoundToFloat(a + b)

Min(a, b) == IF a < b THEN a ELSE b

\* durations and segment lengths a call can be made with: floats up to twice
\* the largest whole number below which every whole number is a float
MaxDuration == 2 * 2^FloatBits
Durations == {x \in 0..MaxDuration : IsFloat(x)}
SegmentDurations == {x \in 1..(2^FloatBits \div 4) : IsFloat(x)}

\* parallel_batch_processor.py:137-150 / batch_video_to_slice.py:364-377: one
\* pass of the while body: the shot appended and the new current_time
ShotStep(cur, idx, duration, segment_duration) ==
    LET end_time == Min(FloatAdd(cur, segment_duration), duration)
    IN [shot |-> [index |-> idx, start_time |-> cur, end_time |-> end_time],
        current_time |-> end_time]

\* a pass of the loop that leaves current_time as it is: every later pass does
\* the same, and the loop never ends
NoProgress(cur, duration, segment_duration) ==
    ShotStep(cur, 0, duration, segment_duration).current_time = cur

\* parallel_batch_processor.py:133-153 / batch_video_to_slice.py:360-380: the
\* loop run to its end (it is only applied where it ends)
RECURSIVE DefaultShotsLoop(_, _, _, _, _)
DefaultShotsLoop(cur, idx, acc, duration, segment_duration) ==
    IF ~(cur < duration) THEN acc
    ELSE LET step == ShotStep(cur, idx, duration, segment_duration)
         IN DefaultShotsLoop(step.current_time, idx + 1, Append(acc, step.shot),
                             duration, segment_duration)

\* parallel_batch_processor.py:105-157 / batch_video_to_slice.py:343-384 for a
\* duration that could be read (0 stands for one that could not, or is <= 0)
CreateDefaultShots(duration, segment_duration) ==
    IF duration <= 0 THEN <<>>
    ELSE DefaultShotsLoop(0, 1, <<>>, duration, segment_duration)

ShotsInit ==
    /\ sh_pc = "get_duration"
    /\ sh_args \in [duration : Durations, segment_duration : SegmentDurations]
    /\ current_time = 0 /\ index = 0 /\ shots = <<>>

\* parallel_batch_processor.py:116-135 / batch_video_to_slice.py:354-362: the
\* duration is read; without one the call returns an empty list
GetDuration ==
    /\ sh_pc = "get_duration"
    /\ IF sh_args.duration <= 0
       THEN sh_pc' = "returned" /\ UNCHANGED <<current_time, index>>
       ELSE sh_pc' = "loop" /\ current_time' = 0 /\ index' = 1
    /\ UNCHANGED <<sh_args, shots>>
    /\ UNCHANGED <<batchVars, gateVars, slicerVars, analyzerVars, itemVars, seqVars, entryVars, laterVars>>

\* parallel_batch_processor.py:137-150: one pass of the while loop. A pass that
\* makes no progress is the first of infinitely many: the call never returns.
AppendShot ==
    /\ sh_pc = "loop"
    /\ current_time < sh_args.duration
    /\ LET step == ShotStep(current_time, index, sh_args.duration, sh_args.segment_duration)
       IN /\ shots' = Append(shots, step.shot)
          /\ current_time' = step.current_time
          /\ index' = index + 1
          /\ sh_pc' = IF step.current_time = current_time THEN "never_returns" ELSE "loop"
    /\ UNCHANGED sh_args
    /\ UNCHANGED <<batchVars, gateVars, slicerVars, analyzerVars, itemVars, seqVars, entryVars, laterVars>>

\* parallel_batch_processor.py:152-153: the loop condition fails; return shots
ReturnShots ==
    /\ sh_pc = "loop"
    /\ ~(current_time < sh_args.duration)
    /\ sh_pc' = "returned"
    /\ UNCHANGED <<sh_args, current_time, index, shots>>
    /\ UNCHANGED <<batchVars, gateVars, slicerVars, analyzerVars, itemVars, seqVars, entryVars, laterVars>>

NextShots ==
    \/ GetDuration
    \/ AppendShot
    \/ ReturnShots

InitShots ==
    /\ ShotsInit /\ BatchIdle /\ GateIdle /\ SlicerIdle /\ AnalyzerIdle
    /\ ItemIdle /\ SeqIdle /\ EntryIdle /\ LaterIdle

SpecShots == InitShots /\ [][NextShots]_vars

\* ================================ process_video of ParallelBatchProcessor
\* parallel_batch_processor.py:105: segment_duration: float = 10.0
default_segment_duration == 10

\* a shot of _create_default_shots (seconds) as a range in milliseconds
ShotInMillis(shot) ==
    [index |-> shot.index, start_time |-> shot.start_time * 1000,
     end_time |-> shot.end_time * 1000]

\* parallel_batch_processor.py:243: the fallback shots of a file whose duration
\* ffprobe reports as `duration` seconds (0: it could not be read)
FallbackShots(duration) ==
    LET made == CreateDefaultShots(duration, default_segment_duration)
    IN [k \in 1..Len(made) |-> ShotInMillis(made[k])]

\* what ffprobe can report for the file of the item: nothing, or 25 seconds
ProbedDurations == {0, 25}

\* parallel_video_slicer.py:160-261 as process_video sees it: the results list
\* of extract_segments_parallel when the encoder does outs[k] for segs[k]. The
\* list is given in submission order; its order is the order of completion,
\* which nothing that reads it here depends on.
RECURSIVE ExtractSegmentsParallel(_, _, _, _)
ExtractSegmentsParallel(segs, outs, k, acc) ==
    IF k > Len(segs) THEN acc
    ELSE ExtractSegmentsParallel(segs, outs, k + 1,
            CollectFuture(acc, ExtractSingleSegment(segs[k], outs[k])))

\* the outcomes of analyze_video over all it can meet on submission
AnalysisErrors == {AnalyzeVideoError(script) : script \in SubmitScripts}

ItemInit ==
    /\ pv_pc = "validate" /\ pv_shots = <<>> /\ pv_fallback = "unset" /\ pv_outcomes = <<>>
    /\ pv_slices = <<>> /\ pv_quality = NoVerdict /\ pv_manifest = FALSE
    /\ pv_error = <<>> /\ pv_result = NoResult

InitItem ==
    /\ ItemInit /\ BatchIdle /\ GateIdle /\ SlicerIdle /\ AnalyzerIdle
    /\ ShotsIdle /\ SeqIdle /\ EntryIdle /\ LaterIdle

\* parallel_batch_processor.py:210-221: the file checks
PvValidate ==
    /\ pv_pc = "validate"
    /\ \E valid_file \in BOOLEAN :
          IF valid_file
          THEN pv_pc' = "analyze" /\ UNCHANGED pv_error
          ELSE pv_pc' = "except" /\ pv_error' = <<"validate_failed">>
    /\ UNCHANGED <<pv_shots, pv_fallback, pv_outcomes, pv_slices, pv_quality, pv_manifest,
                   pv_result>>
    /\ UNCHANGED <<batchVars, gateVars, slicerVars, analyzerVars, shotVars, seqVars, entryVars, laterVars>>

\* parallel_batch_processor.py:227-237: the analysis; a failure dict is raised
PvAnalyze ==
    /\ pv_pc = "analyze"
    /\ \E analysis_error \in AnalysisErrors :
          IF analysis_error = "none"
          THEN pv_pc' = "shots" /\ UNCHANGED pv_error
          ELSE pv_pc' = "except" /\ pv_error' = AnalysisFailed(analysis_error)
    /\ UNCHANGED <<pv_shots, pv_fallback, pv_outcomes, pv_slices, pv_quality, pv_manifest,
                   pv_result>>
    /\ UNCHANGED <<batchVars, gateVars, slicerVars, analyzerVars, shotVars, seqVars, entryVars, laterVars>>

\* parallel_batch_processor.py:239-245: the shots of the analysis, or, if there
\* are none, those of the fallback generator
PvExtractShots ==
    /\ pv_pc = "shots"
    /\ \E n \in 0..MaxRanges :
          IF n > 0
          THEN /\ pv_shots' = [k \in 1..n |-> SubmittedSegment(k)]
               /\ pv_fallback' = "not_needed"
          ELSE \E duration \in ProbedDurations :
                  /\ pv_shots' = FallbackShots(duration)
                  /\ pv_fallback' = IF FallbackShots(duration) = <<>> THEN "empty" ELSE "shots"
    /\ pv_pc' = "slice"
    /\ UNCHANGED <<pv_outcomes, pv_slices, pv_quality, pv_manifest, pv_error, pv_result>>
    /\ UNCHANGED <<batchVars, gateVars, slicerVars, analyzerVars, shotVars, seqVars, entryVars, laterVars>>

\* parallel_batch_processor.py:253-259 with parallel_video_slicer.py:280-333:
\* create_slices_from_shots; for no shots it returns an empty list at once
PvCreateSlices ==
    /\ pv_pc = "slice"
    /\ \E outs \in [1..Len(pv_shots) -> EncoderOutcomes] :
          /\ pv_outcomes' = outs
          /\ pv_slices' = CreateSlicesFromShots(
                              ExtractSegmentsParallel(pv_shots, outs, 1, <<>>))
    /\ pv_pc' = "gate"
    /\ UNCHANGED <<pv_shots, pv_fallback, pv_quality, pv_manifest, pv_error, pv_result>>
    /\ UNCHANGED <<batchVars, gateVars, slicerVars, analyzerVars, shotVars, seqVars, entryVars, laterVars>>

\* parallel_batch_processor.py:261-265: the quality check; a failed one is logged
PvQualityGate ==
    /\ pv_pc = "gate"
    /\ pv_quality' = ParallelValidateSliceQuality(pv_slices)
    /\ pv_pc' = "manifest"
    /\ UNCHANGED <<pv_shots, pv_fallback, pv_outcomes, pv_slices, pv_manifest, pv_error,
                   pv_result>>
    /\ UNCHANGED <<batchVars, gateVars, slicerVars, analyzerVars, shotVars, seqVars, entryVars, laterVars>>

\* parallel_batch_processor.py:267-279: the slice information file is written,
\* or open/json.dump raises
PvWriteManifest ==
    /\ pv_pc = "manifest"
    /\ \E written \in BOOLEAN :
          IF written
          THEN pv_manifest' = TRUE /\ pv_pc' = "return" /\ UNCHANGED pv_error
          ELSE pv_pc' = "except" /\ pv_error' = <<"write_failed">> /\ UNCHANGED pv_manifest
    /\ UNCHANGED <<pv_shots, pv_fallback, pv_outcomes, pv_slices, pv_quality, pv_result>>
    /\ UNCHANGED <<batchVars, gateVars, slicerVars, analyzerVars, shotVars, seqVars, entryVars, laterVars>>

\* parallel_batch_processor.py:281-293: the statistics are updated and the
\* success dict is returned
PvReturn ==
    /\ pv_pc = "return"
    /\ pv_result' = SuccessResult(1, pv_slices)
    /\ pv_pc' = "returned"
    /\ UNCHANGED <<pv_shots, pv_fallback, pv_outcomes, pv_slices, pv_quality, pv_manifest,
                   pv_error>>
    /\ UNCHANGED <<batchVars, gateVars, slicerVars, analyzerVars, shotVars, seqVars, entryVars, laterVars>>

\* parallel_batch_processor.py:295-309: the except branch
PvExcept ==
    /\ pv_pc = "except"
    /\ pv_result' = FailureResult(1, pv_error)
    /\ pv_pc' = "returned"
    /\ UNCHANGED <<pv_shots, pv_fallback, pv_outcomes, pv_slices, pv_quality, pv_manifest,
                   pv_error>>
    /\ UNCHANGED <<batchVars, gateVars, slicerVars, analyzerVars, shotVars, seqVars, entryVars, laterVars>>

NextItem ==
    \/ PvValidate
    \/ PvAnalyze
    \/ PvExtractShots
    \/ PvCreateSlices
    \/ PvQualityGate
    \/ PvWriteManifest
    \/ PvReturn
    \/ PvExcept

SpecItem == InitItem /\ [][NextItem]_vars

\* ================================== process_video of BatchVideoSlicer
\* what one run of the encoder under VideoSlicer.extract_segment can do; "hang"
\* is an encoder that never exits
SeqEncoderOutcomes == {"ok", "ok_small", "nonzero", "empty_output", "error", "hang"}

\* video_slicer.py:90-122: extract_segment returns the output path (TRUE) or
\* None (FALSE) once subprocess.run has returned or raised
ExtractSegment(out) == out \in {"ok", "ok_small"}

\* batch_video_to_slice.py:276-287: slice_info of a shot whose file was made
SliceInfo(shot, out) ==
    [has_path |-> TRUE, exists |-> TRUE, size |-> OutputSize(out),
     duration |-> shot.end_time - shot.start_time, segment_index |-> shot.index]

\* batch_video_to_slice.py:322-329: the dict at the end of the try block
SeqSuccessResult(slices, quality) ==
    [success |-> TRUE, video_name |-> Stem(1), item |-> 1, error |-> <<>>,
     slices_count |-> Len(slices),
     quality |-> IF quality.passed THEN "passed" ELSE "rejected"]

SeqInit ==
    /\ sq_pc = "shots" /\ sq_shots = <<>> /\ sq_i = 0 /\ sq_outcomes = <<>>
    /\ sq_slices = <<>> /\ sq_quality = NoVerdict /\ sq_manifest = FALSE
    /\ sq_result = NoResult

InitSeq ==
    /\ SeqInit /\ BatchIdle /\ GateIdle /\ SlicerIdle /\ AnalyzerIdle
    /\ ShotsIdle /\ ItemIdle /\ EntryIdle /\ LaterIdle

\* batch_video_to_slice.py:239-250: the shots of the analysis or of the fallback
SeqExtractShots ==
    /\ sq_pc = "shots"
    /\ \E n \in 0..MaxRanges :
          /\ sq_shots' = [k \in 1..n |-> SubmittedSegment(k)]
          /\ sq_outcomes' = [k \in 1..n |-> "none"]
    /\ sq_i' = 1
    /\ sq_pc' = "loop"
    /\ UNCHANGED <<sq_slices, sq_quality, sq_manifest, sq_result>>
    /\ UNCHANGED <<batchVars, gateVars, slicerVars, analyzerVars, shotVars, itemVars, entryVars, laterVars>>

\* batch_video_to_slice.py:252-260: a shot shorter than 1.0 second is passed over
SeqSkipShort ==
    /\ sq_pc = "loop" /\ sq_i <= Len(sq_shots)
    /\ sq_shots[sq_i].end_time - sq_shots[sq_i].start_time < 1000
    /\ sq_i' = sq_i + 1
    /\ UNCHANGED <<sq_pc, sq_shots, sq_outcomes, sq_slices, sq_quality, sq_manifest,
                   sq_result>>
    /\ UNCHANGED <<batchVars, gateVars, slicerVars, analyzerVars, shotVars, itemVars, entryVars, laterVars>>

\* batch_video_to_slice.py:266-274 with video_slicer.py:90-96: extract_segment
\* starts the encoder with subprocess.run, which has no timeout argument
SeqRunEncoder ==
    /\ sq_pc = "loop" /\ sq_i <= Len(sq_shots)
    /\ sq_shots[sq_i].end_time - sq_shots[sq_i].start_time >= 1000
    /\ sq_outcomes' = [sq_outcomes EXCEPT ![sq_i] = "running"]
    /\ sq_pc' = "encoder"
    /\ UNCHANGED <<sq_shots, sq_i, sq_slices, sq_quality, sq_manifest, sq_result>>
    /\ UNCHANGED <<batchVars, gateVars, slicerVars, analyzerVars, shotVars, itemVars, entryVars, laterVars>>

\* video_slicer.py:98-122 with batch_video_to_slice.py:276-289: the encoder
\* exits (or subprocess.run raises); a path adds a slice_info, None adds nothing
SeqEncoderExits ==
    /\ sq_pc = "encoder"
    /\ \E out \in SeqEncoderOutcomes \ {"hang"} :
          /\ sq_outcomes' = [sq_outcomes EXCEPT ![sq_i] = out]
          /\ sq_slices' = IF ExtractSegment(out)
                          THEN Append(sq_slices, SliceInfo(sq_shots[sq_i], out))
                          ELSE sq_slices
    /\ sq_i' = sq_i + 1
    /\ sq_pc' = "loop"
    /\ UNCHANGED <<sq_shots, sq_quality, sq_manifest, sq_result>>
    /\ UNCHANGED <<batchVars, gateVars, slicerVars, analyzerVars, shotVars, itemVars, entryVars, laterVars>>

\* video_slicer.py:90-96: the encoder does not exit; subprocess.run, called
\* without timeout, waits for it and nothing in the program ends the wait
SeqEncoderHangs ==
    /\ sq_pc = "encoder"
    /\ sq_outcomes' = [sq_outcomes EXCEPT ![sq_i] = "hang"]
    /\ sq_pc' = "blocked"
    /\ UNCHANGED <<sq_shots, sq_i, sq_slices, sq_quality, sq_manifest, sq_result>>
    /\ UNCHANGED <<batchVars, gateVars, slicerVars, analyzerVars, shotVars, itemVars, entryVars, laterVars>>

\* batch_video_to_slice.py:291-295: after the loop, the quality check
SeqQualityGate ==
    /\ sq_pc = "loop" /\ sq_i > Len(sq_shots)
    /\ sq_quality' = BatchValidateSliceQuality(sq_slices)
    /\ sq_pc' = "manifest"
    /\ UNCHANGED <<sq_shots, sq_i, sq_outcomes, sq_slices, sq_manifest, sq_result>>
    /\ UNCHANGED <<batchVars, gateVars, slicerVars, analyzerVars, shotVars, itemVars, entryVars, laterVars>>

\* batch_video_to_slice.py:297-329: the slice information file is written and
\* the success dict returned; or the write raises and (331-341) the except
\* branch returns the failure dict
SeqWriteManifest ==
    /\ sq_pc = "manifest"
    /\ \E written \in BOOLEAN :
          IF written
          THEN /\ sq_manifest' = TRUE
               /\ sq_result' = SeqSuccessResult(sq_slices, sq_quality)
          ELSE /\ sq_result' = FailureResult(1, <<"write_failed">>)
               /\ UNCHANGED sq_manifest
    /\ sq_pc' = "returned"
    /\ UNCHANGED <<sq_shots, sq_i, sq_outcomes, sq_slices, sq_quality>>
    /\ UNCHANGED <<batchVars, gateVars, slicerVars, analyzerVars, shotVars, itemVars, entryVars, laterVars>>

NextSeq ==
    \/ SeqExtractShots
    \/ SeqSkipShort
    \/ SeqRunEncoder
    \/ SeqEncoderExits
    \/ SeqEncoderHangs
    \/ SeqQualityGate
    \/ SeqWriteManifest

SpecSeq == InitSeq /\ [][NextSeq]_vars

\* ===================================== the entry points of a batch
\* the files input_dir can hold: file name extensions, one file of each at most
Extensions == {"mp4", "mov", "mkv", "txt", "srt"}

\* parallel_batch_processor.py:498 and batch_video_to_srt.py:408: the patterns
\* both entry points have in common among Extensions
VideoExtensions == {"mp4", "mov", "mkv"}

EntryFailure(error) == [kind |-> "returned", success |-> FALSE, error |-> error]
EntryRaised(error) == [kind |-> "raised", success |-> FALSE, error |-> error]
EntrySuccess == [kind |-> "returned", success |-> TRUE, error |-> "none"]

EntryInit ==
    /\ en_pc = "check_input"
    /\ en_entry \in {"sync", "srt"}
    /\ en_input \in {"missing", "file", "dir"}
    /\ en_files \in SUBSET Extensions
    /\ en_input # "dir" => en_files = {}
    /\ en_video_files = {} /\ en_outdir = FALSE /\ en_processed = 0
    /\ en_report = FALSE /\ en_result = NoReturn

InitEntry ==
    /\ EntryInit /\ BatchIdle /\ GateIdle /\ SlicerIdle /\ AnalyzerIdle
    /\ ShotsIdle /\ ItemIdle /\ SeqIdle /\ LaterIdle

\* parallel_batch_processor.py:503-505 and batch_video_to_srt.py:410-413: a
\* path at which nothing exists is answered with a failure dict
CheckInputDir ==
    /\ en_pc = "check_input"
    /\ IF en_input = "missing"
       THEN en_pc' = "done" /\ en_result' = EntryFailure("input_dir_missing")
       ELSE /\ en_pc' = IF en_entry = "srt" THEN "make_output_dir" ELSE "scan"
            /\ UNCHANGED en_result
    /\ UNCHANGED <<en_entry, en_input, en_files, en_video_files, en_outdir, en_processed,
                   en_report>>
    /\ UNCHANGED <<batchVars, gateVars, slicerVars, analyzerVars, shotVars, itemVars, seqVars,
                   laterVars>>

\* batch_video_to_srt.py:415-416: os.makedirs(output_dir, exist_ok=True), outside
\* any try block; it makes the directory or raises OSError
MakeOutputDir ==
    /\ en_pc = "make_output_dir"
    /\ \E made \in BOOLEAN :
          IF made
          THEN en_outdir' = TRUE /\ en_pc' = "scan" /\ UNCHANGED en_result
          ELSE /\ en_pc' = "done" /\ en_result' = EntryRaised("makedirs_failed")
               /\ UNCHANGED en_outdir
    /\ UNCHANGED <<en_entry, en_input, en_files, en_video_files, en_processed, en_report>>
    /\ UNCHANGED <<batchVars, gateVars, slicerVars, analyzerVars, shotVars, itemVars, seqVars,
                   laterVars>>

\* parallel_batch_processor.py:507-512: Path.glob over the patterns, which
\* yields nothing for a path that is no directory; no file found is answered
\* with a failure dict
ScanGlob ==
    /\ en_pc = "scan" /\ en_entry = "sync"
    /\ en_video_files' = en_files \cap VideoExtensions
    /\ IF en_files \cap VideoExtensions = {}
       THEN en_pc' = "done" /\ en_result' = EntryFailure("no_video_files")
       ELSE en_pc' = "run" /\ UNCHANGED en_result
    /\ UNCHANGED <<en_entry, en_input, en_files, en_outdir, en_processed, en_report>>
    /\ UNCHANGED <<batchVars, gateVars, slicerVars, analyzerVars, shotVars, itemVars, seqVars,
                   laterVars>>

\* batch_video_to_srt.py:418-429: os.listdir(input_dir), outside any try block,
\* raises NotADirectoryError for a path that is a regular file; no file found
\* is answered with a failure dict
ScanListdir ==
    /\ en_pc = "scan" /\ en_entry = "srt"
    /\ IF en_input = "file"
       THEN /\ en_pc' = "done" /\ en_result' = EntryRaised("not_a_directory")
            /\ UNCHANGED en_video_files
       ELSE /\ en_video_files' = en_files \cap VideoExtensions
            /\ IF en_files \cap VideoExtensions = {}
               THEN en_pc' = "done" /\ en_result' = EntryFailure("no_video_files")
               ELSE en_pc' = "run" /\ UNCHANGED en_result
    /\ UNCHANGED <<en_entry, en_input, en_files, en_outdir, en_processed, en_report>>
    /\ UNCHANGED <<batchVars, gateVars, slicerVars, analyzerVars, shotVars, itemVars, seqVars,
                   laterVars>>

\* parallel_batch_processor.py:519-521 (parallel_batch_process) and
\* batch_video_to_srt.py:449-540: one more of the files found is processed
RunItem ==
    /\ en_pc = "run" /\ en_processed < Cardinality(en_video_files)
    /\ en_processed' = en_processed + 1
    /\ UNCHANGED <<en_pc, en_entry, en_input, en_files, en_video_files, en_outdir, en_report,
                   en_result>>
    /\ UNCHANGED <<batchVars, gateVars, slicerVars, analyzerVars, shotVars, itemVars, seqVars,
                   laterVars>>

\* parallel_batch_processor.py:441-476: after the last item the report file is
\* written and the result returned; batch_video_to_srt.py:580: batch_process
\* returns its statistics and writes no report file
FinishRun ==
    /\ en_pc = "run" /\ en_processed = Cardinality(en_video_files)
    /\ en_report' = (en_entry = "sync")
    /\ en_result' = EntrySuccess
    /\ en_pc' = "done"
    /\ UNCHANGED <<en_entry, en_input, en_files, en_video_files, en_outdir, en_processed>>
    /\ UNCHANGED <<batchVars, gateVars, slicerVars, analyzerVars, shotVars, itemVars, seqVars,
                   laterVars>>

NextEntry ==
    \/ CheckInputDir
    \/ MakeOutputDir
    \/ ScanGlob
    \/ ScanListdir
    \/ RunItem
    \/ FinishRun

SpecEntry == InitEntry /\ [][NextEntry]_vars

\* ======================= one executor under several concurrent items
\* the items inside process_video at the same time: as many as the outer
\* semaphore lets in
PoolItems == 1..MaxConcurrent
PoolSegments == 1..SegmentsPerItem

PoolRunning ==
    Cardinality({t \in PoolItems \X PoolSegments : pl_task[t[1]][t[2]] = "running"})
RunningOf(i) == Cardinality({k \in PoolSegments : pl_task[i][k] = "running"})
QueuedOf(i) == {k \in PoolSegments : pl_task[i][k] = "queued"}

\* an executor for each item: a worker is free while fewer than max_workers
\* tasks of the item at the head of the queue run
WorkerFree_PerItem == RunningOf(pl_queue[1][1]) < pl_workers

\* parallel_video_slicer.py:43 with parallel_batch_processor.py:72: the
\* processor has one ParallelVideoSlicer, and that has one
\* ThreadPoolExecutor(max_workers): a worker thread is free while fewer than
\* max_workers tasks run, whichever item submitted them
WorkerFree == PoolRunning < pl_workers

PoolInit ==
    /\ pl_workers \in 1..MaxWorkers
    /\ pl_pc = [i \in PoolItems |-> "submit"]
    /\ pl_task = [i \in PoolItems |-> [k \in PoolSegments |-> "new"]]
    /\ pl_queue = <<>>

InitPool == PoolInit /\ IdleBesidesPool

\* parallel_video_slicer.py:188-201: item i's call submits its next segment to
\* self.executor; after the last one it goes on to collect
PoolSubmit(i) ==
    /\ pl_pc[i] = "submit"
    /\ \E k \in PoolSegments :
          /\ pl_task[i][k] = "new"
          /\ \A j \in 1..(k - 1) : pl_task[i][j] # "new"
          /\ pl_task' = [pl_task EXCEPT ![i][k] = "queued"]
          /\ pl_queue' = Append(pl_queue, <<i, k>>)
          /\ pl_pc' = IF k = SegmentsPerItem THEN [pl_pc EXCEPT ![i] = "collecting"] ELSE pl_pc
    /\ UNCHANGED pl_workers
    /\ UNCHANGED besidesPool

\* ThreadPoolExecutor: a free worker thread takes the oldest task of the queue
PoolStart ==
    /\ pl_queue # <<>>
    /\ WorkerFree
    /\ pl_task' = [pl_task EXCEPT ![pl_queue[1][1]][pl_queue[1][2]] = "running"]
    /\ pl_queue' = Tail(pl_queue)
    /\ UNCHANGED <<pl_workers, pl_pc>>
    /\ UNCHANGED besidesPool

\* parallel_video_slicer.py:54-158: the encoder of a running task ends
PoolFinish(i, k) ==
    /\ pl_task[i][k] = "running"
    /\ pl_task' = [pl_task EXCEPT ![i][k] = "done"]
    /\ UNCHANGED <<pl_workers, pl_pc, pl_queue>>
    /\ UNCHANGED besidesPool

\* parallel_video_slicer.py:207-261: as_completed has yielded every future of
\* item i; its call returns
PoolReturn(i) ==
    /\ pl_pc[i] = "collecting"
    /\ \A k \in PoolSegments : pl_task[i][k] = "done"
    /\ pl_pc' = [pl_pc EXCEPT ![i] = "returned"]
    /\ UNCHANGED <<pl_workers, pl_task, pl_queue>>
    /\ UNCHANGED besidesPool

NextPool ==
    \/ \E i \in PoolItems : PoolSubmit(i)
    \/ PoolStart
    \/ \E i \in PoolItems, k \in PoolSegments : PoolFinish(i, k)
    \/ \E i \in PoolItems : PoolReturn(i)

SpecPool == InitPool /\ [][NextPool]_vars

\* ============================================ the command-line entry points
\* video_to_slice/run.py, parallel_batch_processor.py main(),
\* video_to_srt/run.py and batch_video_to_srt.py main()
Mains == {"slice_run", "slice_main", "srt_run", "srt_main"}

\* what processing one file of the batch ends in
ItemFates == {"success", "quality_rejected", "failed"}

RECURSIVE SeqsUpTo(_, _)
SeqsUpTo(S, n) ==
    IF n = 0 THEN {<<>>}
    ELSE LET shorter == SeqsUpTo(S, n - 1)
         IN  shorter \cup {Append(q, x) : q \in {p \in shorter : Len(p) = n - 1}, x \in S}

CountOf(items, what) == Cardinality({k \in 1..Len(items) : items[k] = what})

\* parallel_batch_processor.py:503-512 and batch_video_to_srt.py:410-429: the
\* failure dict of a batch that found no input directory or no file in it
BatchNotRun ==
    [kind |-> "returned", success |-> FALSE, total_files |-> 0, success_count |-> 0,
     failed_count |-> 0, quality_rejected_count |-> 0]

\* an exception propagating out of the constructor or the batch function
BatchRaised == [BatchNotRun EXCEPT !.kind = "raised"]

\* parallel_batch_processor.py:474-481 and batch_video_to_srt.py:449-580: the
\* batch ran over every file and returns success True with its counts
BatchRan(items) ==
    [kind |-> "returned", success |-> TRUE, total_files |-> Len(items),
     success_count |-> CountOf(items, "success"),
     failed_count |-> CountOf(items, "failed"),
     quality_rejected_count |-> CountOf(items, "quality_rejected")]

\* batch_video_to_srt.py:678-688: main() of the transcription batch exits 0 only
\* when no item failed
ExitStatus_FailedCount(res) ==
    IF res.kind = "raised" THEN 1
    ELSE IF res.success
         THEN (IF res.failed_count = 0 THEN 0 ELSE 1)
         ELSE 1

\* video_to_slice/run.py:151-172, parallel_batch_processor.py:573-587 and
\* video_to_srt/run.py:176-193: exit status 0 for result["success"], 1 else;
\* an exception is turned into 1 (run.py:181-186, 203-208)
ExitStatus_Success(res) ==
    IF res.kind = "raised" THEN 1
    ELSE IF res.success THEN 0 ELSE 1

ExitStatus(main, res) ==
    IF main = "srt_main" THEN ExitStatus_FailedCount(res)
    ELSE ExitStatus_Success(res)

ExitInit ==
    /\ ex_main \in Mains
    /\ ex_pc = "precheck"
    /\ ex_input \in {"missing", "dir"}
    /\ ex_credentials \in BOOLEAN
    /\ ex_items \in SeqsUpTo(ItemFates, MaxFiles)
    /\ ex_input = "missing" => ex_items = <<>>
    /\ ex_result = NoBatchResult
    /\ ex_status = -1

InitExit == ExitInit /\ IdleBesidesExit

\* the checks main() makes before it calls the batch function:
\* video_to_slice/run.py:113-127 (input directory, credentials),
\* parallel_batch_processor.py:550-554 (credentials),
\* video_to_srt/run.py:111-142 (input directory, API key, files found);
\* batch_video_to_srt.py main() makes none
Precheck ==
    /\ ex_pc = "precheck"
    /\ LET refuse ==
              CASE ex_main = "slice_run" -> ex_input = "missing" \/ ~ex_credentials
                [] ex_main = "slice_main" -> ~ex_credentials
                [] ex_main = "srt_run" ->
                      ex_input = "missing" \/ ~ex_credentials \/ ex_items = <<>>
                [] OTHER -> FALSE
       IN  IF refuse
           THEN ex_pc' = "exited" /\ ex_status' = 1
           ELSE ex_pc' = "batch" /\ UNCHANGED ex_status
    /\ UNCHANGED <<ex_main, ex_input, ex_credentials, ex_items, ex_result>>
    /\ UNCHANGED besidesExit

\* the constructor and the batch function: batch_video_to_srt.py:70-74 raises
\* without an API key; a missing input directory or no matching file is
\* answered with a failure dict; otherwise every file is processed and the
\* result has success True
RunBatch ==
    /\ ex_pc = "batch"
    /\ ex_result' =
          IF ex_main = "srt_main" /\ ~ex_credentials THEN BatchRaised
          ELSE IF ex_input = "missing" \/ ex_items = <<>> THEN BatchNotRun
          ELSE BatchRan(ex_items)
    /\ ex_pc' = "exit"
    /\ UNCHANGED <<ex_main, ex_input, ex_credentials, ex_items, ex_status>>
    /\ UNCHANGED besidesExit

\* main() turns the result into the exit status of the process
Exit ==
    /\ ex_pc = "exit"
    /\ ex_status' = ExitStatus(ex_main, ex_result)
    /\ ex_pc' = "exited"
    /\ UNCHANGED <<ex_main, ex_input, ex_credentials, ex_items, ex_result>>
    /\ UNCHANGED besidesExit

NextExit ==
    \/ Precheck
    \/ RunBatch
    \/ Exit

SpecExit == InitExit /\ [][NextExit]_vars

\* ================================== the transcription of one video to SRT
\* what the remote transcription can end in, seen from transcribe_audio:
\* the upload of the audio fails (dashscope_audio_analyzer.py:94-101), the
\* task is not accepted (337-345), the wait ends with a status other than OK
\* (367-383), the task did not succeed (490-500), no subtask succeeded
\* (535-542), the result file of a succeeded subtask cannot be fetched or
\* parsed (521-533), the result has a format nobody recognises (587-600), a
\* call raises (125-132, 602-613); or the audio holds no speech (558-567),
\* the result is plain text without timestamps (546-555), or the result file
\* is fetched and holds the segments (519-522)
RemoteFailures ==
    {"upload_failed", "submit_failed", "api_error", "task_failed", "subtasks_failed",
     "download_failed", "unrecognised", "raised"}
RemoteAnswers == {"no_speech", "text_only", "segments"}

\* the segment lists a fetched result file can hold
TranscriptInputs ==
    {[k \in 1..Len(cs) |-> SegmentOfClass(cs[k], k)] :
        cs \in SeqsUpTo({"plain", "overlap", "bad_time", "blank"}, MaxTranscript)}

\* dashscope_audio_analyzer.py:52-132 with _call_dashscope_asr (267-424) and
\* _parse_dashscope_result (426-613): the dict transcribe_audio returns
TranscribeAudio(remote, segments) ==
    CASE remote = "segments" -> [success |-> TRUE, segments |-> segments, error |-> "none"]
      [] remote \in {"no_speech", "text_only"} ->
            [success |-> TRUE, segments |-> <<>>, error |-> "none"]
      \* 523-533: "转录结果下载失败" is returned with success True
      [] remote = "download_failed" ->
            [success |-> TRUE, segments |-> <<>>, error |-> "none"]
      [] OTHER -> [success |-> FALSE, segments |-> <<>>, error |-> remote]

Details(success, quality_rejected, error_type) ==
    [success |-> success, quality_rejected |-> quality_rejected, error_type |-> error_type]

\* a check that answers an empty list like a failed transcription
SegmentsCheck_AsFailure(segments) ==
    IF Len(segments) = 0
    THEN [next |-> "return", details |-> Details(FALSE, FALSE, "transcription_failed")]
    ELSE [next |-> "gate", details |-> NoDetails]

\* batch_video_to_srt.py:344-352: `if not segments or len(segments) == 0`
SegmentsCheck(segments) ==
    IF Len(segments) = 0
    THEN [next |-> "return", details |-> Details(FALSE, TRUE, "no_timestamps")]
    ELSE [next |-> "gate", details |-> NoDetails]

\* batch_video_to_srt.py:475-515: the counter of batch_process an item's
\* result is added to
CountedAs(details) ==
    IF details.success THEN "success_count"
    ELSE IF details.quality_rejected THEN "quality_rejected_count"
    ELSE "failed_count"

\* batch_video_to_srt.py:457-467: batch_process calls the function only for a
\* video whose SRT file does not exist
TransInit ==
    /\ tr_pc = "extract_audio" /\ tr_remote = "none" /\ tr_trans_result = NoTranscription
    /\ tr_quality = NoVerdict /\ tr_srt_file = "absent"
    /\ tr_result = NoDetails /\ tr_counted = "none"

InitTrans == TransInit /\ IdleBesidesTrans

\* batch_video_to_srt.py:323-330: extract_audio_from_video gives a path or None
ExtractAudio ==
    /\ tr_pc = "extract_audio"
    /\ \E extracted \in BOOLEAN :
          IF extracted
          THEN tr_pc' = "transcribe" /\ UNCHANGED tr_result
          ELSE /\ tr_pc' = "returned"
               /\ tr_result' = Details(FALSE, FALSE, "audio_extraction_failed")
    /\ UNCHANGED <<tr_remote, tr_trans_result, tr_quality, tr_srt_file, tr_counted>>
    /\ UNCHANGED besidesTrans

\* batch_video_to_srt.py:333-342: transcribe_audio, and the return for a
\* trans_result without success
Transcribe ==
    /\ tr_pc = "transcribe"
    /\ \E remote \in RemoteFailures \cup RemoteAnswers, segments \in TranscriptInputs :
          /\ remote # "segments" => segments = <<>>
          /\ tr_remote' = remote
          /\ tr_trans_result' = TranscribeAudio(remote, segments)
          /\ IF TranscribeAudio(remote, segments).success
             THEN tr_pc' = "check_segments" /\ UNCHANGED tr_result
             ELSE /\ tr_pc' = "returned"
                  /\ tr_result' = Details(FALSE, FALSE, "transcription_failed")
    /\ UNCHANGED <<tr_quality, tr_srt_file, tr_counted>>
    /\ UNCHANGED besidesTrans

\* batch_video_to_srt.py:344-352
CheckSegments ==
    /\ tr_pc = "check_segments"
    /\ LET check == SegmentsCheck(tr_trans_result.segments)
       IN  IF check.next = "return"
           THEN tr_pc' = "returned" /\ tr_result' = check.details
           ELSE tr_pc' = "gate" /\ UNCHANGED tr_result
    /\ UNCHANGED <<tr_remote, tr_trans_result, tr_quality, tr_srt_file, tr_counted>>
    /\ UNCHANGED besidesTrans

\* batch_video_to_srt.py:354-363
TransQualityGate ==
    /\ tr_pc = "gate"
    /\ tr_quality' = ValidateSegmentsQuality(tr_trans_result.segments)
    /\ IF ValidateSegmentsQuality(tr_trans_result.segments).passed
       THEN tr_pc' = "open" /\ UNCHANGED tr_result
       ELSE /\ tr_pc' = "returned"
            /\ tr_result' = Details(FALSE, TRUE, "quality_check_failed")
    /\ UNCHANGED <<tr_remote, tr_trans_result, tr_srt_file, tr_counted>>
    /\ UNCHANGED besidesTrans

\* batch_video_to_srt.py:367-371: to_srt, os.makedirs and open(output_srt_path,
\* 'w'), which creates the file, empty, or raises into the except branch
\* (384-390)
OpenSrt ==
    /\ tr_pc = "open"
    /\ \E opened \in BOOLEAN :
          IF opened
          THEN tr_srt_file' = "empty" /\ tr_pc' = "write" /\ UNCHANGED tr_result
          ELSE /\ tr_pc' = "returned"
               /\ tr_result' = Details(FALSE, FALSE, "processing_exception")
               /\ UNCHANGED tr_srt_file
    /\ UNCHANGED <<tr_remote, tr_trans_result, tr_quality, tr_counted>>
    /\ UNCHANGED besidesTrans

\* batch_video_to_srt.py:372-390: f.write(srt_content) and the closing of the
\* file write the content and the success dict is returned, or they raise (the
\* disk is full) and leave the file as it was created, and the except branch
\* returns its dict
WriteSrt ==
    /\ tr_pc = "write"
    /\ \E written \in BOOLEAN :
          IF written
          THEN tr_srt_file' = "written" /\ tr_result' = Details(TRUE, FALSE, "none")
          ELSE /\ tr_result' = Details(FALSE, FALSE, "processing_exception")
               /\ UNCHANGED tr_srt_file
    /\ tr_pc' = "returned"
    /\ UNCHANGED <<tr_remote, tr_trans_result, tr_quality, tr_counted>>
    /\ UNCHANGED besidesTrans

\* batch_video_to_srt.py:475-515: batch_process counts the item
CountItem ==
    /\ tr_pc = "returned"
    /\ tr_counted' = CountedAs(tr_result)
    /\ tr_pc' = "counted"
    /\ UNCHANGED <<tr_remote, tr_trans_result, tr_quality, tr_srt_file, tr_result>>
    /\ UNCHANGED besidesTrans

NextTrans ==
    \/ ExtractAudio
    \/ Transcribe
    \/ CheckSegments
    \/ TransQualityGate
    \/ OpenSrt
    \/ WriteSrt
    \/ CountItem

SpecTrans == InitTrans /\ [][NextTrans]_vars

\* ============================================ a Quality Gate called twice
\* parallel_batch_processor.py:159-194: the dict _validate_slice_quality
\* returns at wall-clock time now; for a list that is not empty its 'details'
\* hold check_time = datetime.now().isoformat(), for an empty list 'details'
\* is {}
ParallelVerdictDict(slices, now) ==
    [verdict |-> ParallelValidateSliceQuality(slices),
     check_time |-> IF Len(slices) = 0 THEN -1 ELSE now]

\* batch_video_to_srt.py:85-214: the dict _validate_segments_quality returns;
\* nothing in it is read from the clock
SegmentsVerdictDict(segments) ==
    [verdict |-> ValidateSegmentsQuality(segments), check_time |-> -1]

RepeatInit ==
    /\ rp_gate \in {"parallel", "segments"}
    /\ IF rp_gate = "parallel"
       THEN rp_slices \in SliceLists /\ rp_segments = <<>> /\ rp_given = rp_slices
       ELSE rp_slices = <<>> /\ rp_segments \in TranscriptInputs /\ rp_given = rp_segments
    /\ rp_clock = 0
    /\ rp_verdicts = <<>>

InitRepeat == RepeatInit /\ IdleBesidesRepeat

\* time passes between the calls
Tick ==
    /\ rp_clock < MaxClock
    /\ rp_clock' = rp_clock + 1
    /\ UNCHANGED <<rp_gate, rp_slices, rp_segments, rp_given, rp_verdicts>>
    /\ UNCHANGED besidesRepeat

\* parallel_batch_processor.py:159-194: a call of the slice gate; it reads the
\* list and the files and assigns to neither
CallSliceGate ==
    /\ rp_gate = "parallel" /\ Len(rp_verdicts) < 2
    /\ rp_verdicts' = Append(rp_verdicts, ParallelVerdictDict(rp_slices, rp_clock))
    /\ UNCHANGED <<rp_gate, rp_slices, rp_segments, rp_given, rp_clock>>
    /\ UNCHANGED besidesRepeat

\* batch_video_to_srt.py:85-214: a call of the transcript gate; it reads the
\* list and assigns to none of its dicts
CallSegmentsGate ==
    /\ rp_gate = "segments" /\ Len(rp_verdicts) < 2
    /\ rp_verdicts' = Append(rp_verdicts, SegmentsVerdictDict(rp_segments))
    /\ UNCHANGED <<rp_gate, rp_slices, rp_segments, rp_given, rp_clock>>
    /\ UNCHANGED besidesRepeat

NextRepeat ==
    \/ Tick
    \/ CallSliceGate
    \/ CallSegmentsGate

SpecRepeat == InitRepeat /\ [][NextRepeat]_vars

\* ============================================= the output paths of an item
\* the names a file of the input directory can have
Stems == {"intro", "talk"}
FileNames == [stem : Stems, ext : VideoExtensions]

\* Path(name).stem: the file name without its last suffix
StemOf(file) == file.stem

\* parallel_video_slicer.py:63-69 with 301-315: the path of segment k of a
\* video, <output_dir>/<video_name>/<video_id>_semantic_seg_<k>_<type>.mp4,
\* where video_name and video_id are the stem of the input file
SlicePath(file, k) == <<StemOf(file), StemOf(file), "semantic_seg", k, "mp4">>

\* parallel_batch_processor.py:207-221 and 268:
\* <output_dir>/<video_name>/<video_name>_slices.json
ManifestPath(file) == <<StemOf(file), StemOf(file), "slices", "json">>

\* batch_video_to_srt.py:453-455: <output_dir>/<stem>.srt
SrtPath(file) == <<StemOf(file), "srt">>

Artifacts(pipeline, file) ==
    IF pipeline = "slice"
    THEN {SlicePath(file, k) : k \in 0..(SegmentsPerItem - 1)} \cup {ManifestPath(file)}
    ELSE {SrtPath(file)}

\* two different files of the same directory
PathsInit ==
    /\ pa_pipeline \in {"slice", "srt"}
    /\ pa_files \in [1..2 -> FileNames]
    /\ pa_files[1] # pa_files[2]
    /\ pa_paths = [i \in 1..2 |-> {}]

InitPaths == PathsInit /\ IdleBesidesPaths

\* parallel_batch_processor.py:207-268 with parallel_video_slicer.py:63-69: the
\* paths process_video writes for item i
SlicePaths(i) ==
    /\ pa_pipeline = "slice" /\ pa_paths[i] = {}
    /\ pa_paths' = [pa_paths EXCEPT ![i] = Artifacts("slice", pa_files[i])]
    /\ UNCHANGED <<pa_pipeline, pa_files>>
    /\ UNCHANGED besidesPaths

\* batch_video_to_srt.py:449-455: the path batch_process gives item i
SrtPaths(i) ==
    /\ pa_pipeline = "srt" /\ pa_paths[i] = {}
    /\ pa_paths' = [pa_paths EXCEPT ![i] = Artifacts("srt", pa_files[i])]
    /\ UNCHANGED <<pa_pipeline, pa_files>>
    /\ UNCHANGED besidesPaths

NextPaths ==
    \/ \E i \in 1..2 : SlicePaths(i)
    \/ \E i \in 1..2 : SrtPaths(i)

SpecPaths == InitPaths /\ [][NextPaths]_vars

\* ======================================== to_srt and the subtitle text
\* A text is a sequence of characters; "\n" is the line feed. A string that is
\* written to the subtitle file is held as the list of its lines, which is
\* str.split("\n") of it.
NewLine == "\n"

\* the texts of the segments handed to to_srt: not blank
Texts ==
    {t \in SeqsUpTo({"a", NewLine}, MaxTextLen) : \E k \in 1..Len(t) : t[k] = "a"}

\* str.split("\n")
RECURSIVE SplitLines(_)
SplitLines(t) ==
    IF \A k \in 1..Len(t) : t[k] # NewLine THEN <<t>>
    ELSE LET k == CHOOSE j \in 1..Len(t) :
                     t[j] = NewLine /\ \A i \in 1..(j - 1) : t[i] # NewLine
         IN  <<SubSeq(t, 1, k - 1)>> \o SplitLines(SubSeq(t, k + 1, Len(t)))

\* "\n".join(lines)
RECURSIVE JoinLines(_)
JoinLines(lines) ==
    IF Len(lines) = 0 THEN <<>>
    ELSE IF Len(lines) = 1 THEN lines[1]
    ELSE lines[1] \o <<NewLine>> \o JoinLines(Tail(lines))

IndexLine(n) == [kind |-> "index", index |-> n, time |-> <<>>, chars |-> <<"#">>]
TimeLine(start, end) ==
    [kind |-> "time", index |-> 0, time |-> <<start, end>>, chars |-> <<"#">>]
TextLine(chars) == [kind |-> "text", index |-> 0, time |-> <<>>, chars |-> chars]
TextLines(t) == [k \in 1..Len(SplitLines(t)) |-> TextLine(SplitLines(t)[k])]
IsBlank(line) == line.kind = "text" /\ line.chars = <<>>

\* datetime.timedelta(seconds=ms / 1000) for a whole number of milliseconds: the
\* constructor rounds to microseconds and keeps whole seconds and microseconds
\* apart (the days are counted in seconds here)
TimeDelta(ms) == [seconds |-> ms \div 1000, microseconds |-> (ms % 1000) * 1000]

\* srt_utils.py:31-41 _format_srt_time on the timedelta it makes:
\* int(td.total_seconds()), int(td.microseconds / 1000), and the fields of
\* "HH:MM:SS,mmm"
FormatTimeDelta(td) ==
    LET total_seconds == td.seconds
        milliseconds == td.microseconds \div 1000
    IN  [hours |-> total_seconds \div 3600,
         minutes |-> (total_seconds % 3600) \div 60,
         secs |-> total_seconds % 60,
         milliseconds |-> milliseconds]

\* srt_utils.py:31-41 _format_srt_time, the time given in microseconds
FormatSrtTime(us) ==
    FormatTimeDelta([seconds |-> us \div 1000000, microseconds |-> us % 1000000])

\* srt_utils.py:14-30: the four strings appended for each segment, joined with
\* "\n"; the join of no string is the empty string, which is one empty line
RECURSIVE SrtContent(_, _)
SrtContent(segments, i) ==
    IF i > Len(segments) THEN <<>>
    ELSE <<IndexLine(i),
           TimeLine(FormatSrtTime(segments[i].start), FormatSrtTime(segments[i].end))>>
         \o TextLines(segments[i].text)
         \o <<TextLine(<<>>)>>
         \o SrtContent(segments, i + 1)

ToSrt(segments) ==
    IF Len(segments) = 0 THEN <<TextLine(<<>>)>> ELSE SrtContent(segments, 1)

\* reading subtitle text: the entries are the runs of lines between blank
\* lines
RECURSIVE Blocks(_, _)
Blocks(lines, current) ==
    IF Len(lines) = 0 THEN (IF Len(current) = 0 THEN <<>> ELSE <<current>>)
    ELSE IF IsBlank(Head(lines))
    THEN (IF Len(current) = 0 THEN <<>> ELSE <<current>>) \o Blocks(Tail(lines), <<>>)
    ELSE Blocks(Tail(lines), Append(current, Head(lines)))

\* the milliseconds a time stamp "HH:MM:SS,mmm" stands for
ParseSrtTime(t) == ((t.hours * 60 + t.minutes) * 60 + t.secs) * 1000 + t.milliseconds

WellFormedBlock(block) ==
    /\ Len(block) >= 2
    /\ block[1].kind = "index" /\ block[2].kind = "time"
    /\ \A k \in 3..Len(block) : block[k].kind = "text"

\* an entry: its number, its times in milliseconds, and its text lines
ParseBlock(block) ==
    [index |-> block[1].index,
     start |-> ParseSrtTime(block[2].time[1]),
     end |-> ParseSrtTime(block[2].time[2]),
     text |-> JoinLines([k \in 1..(Len(block) - 2) |-> block[k + 2].chars])]

MalformedEntry == [index |-> -1, start |-> -1, end |-> -1, text |-> <<>>]

ParseSrt(lines) ==
    LET blocks == Blocks(lines, <<>>)
    IN  [k \in 1..Len(blocks) |->
            IF WellFormedBlock(blocks[k]) THEN ParseBlock(blocks[k]) ELSE MalformedEntry]

\* the times, in microseconds, at which the segments begin and end
TimePoints == {0, 1999600, 61000500, 125001000}

\* well-formed segments that do not overlap: start >= 0, end > start, a text
\* that is not blank, each start at or after the end before it
TranscriptSegment(start, end, text) == [start |-> start, end |-> end, text |-> text]
WellFormedSegments ==
    {seg \in [start : TimePoints, end : TimePoints, text : Texts] : seg.end > seg.start}
RECURSIVE WellFormedLists(_)
WellFormedLists(n) ==
    IF n = 0 THEN {<<>>}
    ELSE LET shorter == WellFormedLists(n - 1)
         IN  shorter \cup
             UNION {{Append(q, seg) :
                        seg \in {x \in WellFormedSegments :
                                    Len(q) = 0 \/ x.start >= q[Len(q)].end}} :
                    q \in {p \in shorter : Len(p) = n - 1}}

SrtInit ==
    /\ sr_pc = "convert"
    /\ sr_segments \in WellFormedLists(MaxEntries)
    /\ sr_srt = <<>> /\ sr_parsed = <<>>

InitSrt == SrtInit /\ IdleBesidesSrt

\* srt_utils.py:3-30
ConvertToSrt ==
    /\ sr_pc = "convert"
    /\ sr_srt' = ToSrt(sr_segments)
    /\ sr_pc' = "parse"
    /\ UNCHANGED <<sr_segments, sr_parsed>>
    /\ UNCHANGED besidesSrt

\* the subtitle text is read back
ReadSrt ==
    /\ sr_pc = "parse"
    /\ sr_parsed' = ParseSrt(sr_srt)
    /\ sr_pc' = "done"
    /\ UNCHANGED <<sr_segments, sr_srt>>
    /\ UNCHANGED besidesSrt

NextSrt ==
    \/ ConvertToSrt
    \/ ReadSrt

SpecSrt == InitSrt /\ [][NextSrt]_vars

\* ===================================== one processor, several batch runs
\* parallel_batch_processor.py:282, 298-301 and 403-412: what one item, processed
\* and then collected, does to self.stats
ParallelItemStats(st, r) ==
    LET processed == IF r.success
                     THEN [st EXCEPT !.total_slices = @ + r.slices_count]
                     ELSE AppendError(st, r.video_name)
        counted == AggregateStats(processed, r)
    IN  IF r.success
        THEN [counted EXCEPT !.total_slices = @ + r.slices_count]
        ELSE counted

\* batch_video_to_slice.py:314, 330-333 and 427-430: the same for the loop of
\* BatchVideoSlicer.process_batch
SequentialItemStats(st, r) ==
    IF r.success
    THEN [st EXCEPT !.total_slices = @ + r.slices_count, !.processed_videos = @ + 1]
    ELSE [AppendError(st, r.video_name) EXCEPT !.failed_videos = @ + 1]

\* parallel_batch_processor.py:75-82, batch_video_to_slice.py:68-74: the
\* constructor is the only place that sets the counters to 0
ReuseInit ==
    /\ ru_kind \in {"parallel", "sequential"}
    /\ ru_pc = "constructed"
    /\ ru_stats = Stats0
    /\ ru_left = 0
    /\ ru_runs = 0

InitReuse == ReuseInit /\ IdleBesidesReuse

\* parallel_batch_processor.py:377-378, batch_video_to_slice.py:418-419: a run
\* over n files begins; only total_videos is assigned
StartRun ==
    /\ ru_pc \in {"constructed", "returned"}
    /\ ru_runs < MaxRuns
    /\ \E n \in 1..NumVideos :
          /\ ru_stats' = [ru_stats EXCEPT !.total_videos = n]
          /\ ru_left' = n
    /\ ru_pc' = "running"
    /\ UNCHANGED <<ru_kind, ru_runs>>
    /\ UNCHANGED besidesReuse

\* parallel_batch_processor.py:397-412, batch_video_to_slice.py:421-430: one
\* file is processed and counted
RunOneItem ==
    /\ ru_pc = "running" /\ ru_left > 0
    /\ \E o \in ProcessVideoOutcomes[ru_left] :
          ru_stats' = IF ru_kind = "parallel"
                      THEN ParallelItemStats(ru_stats, o.result)
                      ELSE SequentialItemStats(ru_stats, o.result)
    /\ ru_left' = ru_left - 1
    /\ UNCHANGED <<ru_kind, ru_pc, ru_runs>>
    /\ UNCHANGED besidesReuse

\* parallel_batch_processor.py:474-481, batch_video_to_slice.py:445-450: the run
\* returns self.stats
ReturnRun ==
    /\ ru_pc = "running" /\ ru_left = 0
    /\ ru_pc' = "returned"
    /\ ru_runs' = ru_runs + 1
    /\ UNCHANGED <<ru_kind, ru_stats, ru_left>>
    /\ UNCHANGED besidesReuse

NextReuse ==
    \/ StartRun
    \/ RunOneItem
    \/ ReturnRun

SpecReuse == InitReuse /\ [][NextReuse]_vars

\* ============================== the loop of BatchVideoTranscriber.batch_process
\* the video files of the input directory in the order os.listdir gives them;
\* two of them have the same stem
DirListing ==
    <<[stem |-> "intro", ext |-> "mp4"], [stem |-> "intro", ext |-> "mov"],
      [stem |-> "talk", ext |-> "mp4"]>>

\* the files of DirListing at the positions in S, in listing order
RECURSIVE ListingAt(_, _)
ListingAt(S, k) ==
    IF k > Len(DirListing) THEN <<>>
    ELSE (IF k \in S THEN <<DirListing[k]>> ELSE <<>>) \o ListingAt(S, k + 1)

\* the content of an SRT path: no file, a file that was there before the first
\* run, a file opened for writing and never written, or the subtitles of a
\* video file
Absent == <<"absent">>
OldSrt == <<"old">>
EmptySrt == <<"empty">>
SrtOf(file) == <<"srt", file.stem, file.ext>>

\* batch_video_to_srt.py:305-390: the ways transcribe_video_to_srt_with_details
\* ends for a file: the dict it returns, the remote transcription call it made
\* or not (audio extraction came first in each), and what it left at the SRT path
ItemRuns(file) ==
    {[details |-> Details(FALSE, FALSE, "audio_extraction_failed"),
      remote |-> FALSE, srt |-> Absent],
     [details |-> Details(FALSE, FALSE, "transcription_failed"),
      remote |-> TRUE, srt |-> Absent],
     [details |-> Details(FALSE, TRUE, "quality_check_failed"),
      remote |-> TRUE, srt |-> Absent],
     [details |-> Details(FALSE, FALSE, "processing_exception"),
      remote |-> TRUE, srt |-> EmptySrt],
     [details |-> Details(TRUE, FALSE, "none"),
      remote |-> TRUE, srt |-> SrtOf(file)]}

\* batch_video_to_srt.py:434-449: the dict `results` before the loop
Results0(video_files) ==
    [total_files |-> Len(video_files), success_count |-> 0, failed_count |-> 0,
     quality_rejected_count |-> 0, success_files |-> <<>>, failed_files |-> <<>>,
     quality_rejected_files |-> <<>>]

\* a test that sends every file to transcription
SrtExists_Never(disk, file) == FALSE

\* batch_video_to_srt.py:457: os.path.exists(output_srt_path), the path being
\* <output_dir>/<stem>.srt
SrtExists(disk, file) == disk[StemOf(file)] # Absent

\* batch_video_to_srt.py:458-465: the file is counted a success, "已存在"
CountExisting(res, file) ==
    [res EXCEPT !.success_count = @ + 1,
                !.success_files = Append(@, [video_file |-> file, status |-> "exists"])]

\* a count that puts a quality rejection on the failed list as well
CountTranscribed_RejectedTwice(res, file, details) ==
    IF details.success
    THEN [res EXCEPT !.success_count = @ + 1,
                     !.success_files = Append(@, [video_file |-> file, status |-> "new"])]
    ELSE IF details.quality_rejected
    THEN [res EXCEPT !.quality_rejected_count = @ + 1,
                     !.quality_rejected_files =
                         Append(@, [video_file |-> file, status |-> "quality_rejected"]),
                     !.failed_count = @ + 1,
                     !.failed_files =
                         Append(@, [video_file |-> file, status |-> details.error_type])]
    ELSE [res EXCEPT !.failed_count = @ + 1,
                     !.failed_files =
                         Append(@, [video_file |-> file, status |-> details.error_type])]

\* batch_video_to_srt.py:476-513: the three branches on the returned dict
CountTranscribed(res, file, details) ==
    IF details.success
    THEN [res EXCEPT !.success_count = @ + 1,
                     !.success_files = Append(@, [video_file |-> file, status |-> "new"])]
    ELSE IF details.quality_rejected
    THEN [res EXCEPT !.quality_rejected_count = @ + 1,
                     !.quality_rejected_files =
                         Append(@, [video_file |-> file, status |-> "quality_rejected"])]
    ELSE [res EXCEPT !.failed_count = @ + 1,
                     !.failed_files =
                         Append(@, [video_file |-> file, status |-> details.error_type])]

\* one entry of the history of a run
Iteration(file, extract, remote, before, after) ==
    [file |-> file, extract |-> extract, remote |-> remote,
     before |-> before, after |-> after]

\* the input directory holds some files of DirListing; each SRT path is free
\* or taken by a file from before
LoopInit ==
    /\ sb_pc = "start"
    /\ \E S \in SUBSET (1..Len(DirListing)) :
          /\ S # {} /\ Cardinality(S) <= MaxFiles
          /\ sb_files = ListingAt(S, 1)
    /\ sb_i = 0
    /\ sb_disk \in [Stems -> {Absent, OldSrt}]
    /\ sb_results = <<>>
    /\ sb_log = <<>>
    /\ sb_hist = [run |-> 0, disk |-> sb_disk, all_succeeded |-> FALSE]

InitLoop == LoopInit /\ IdleBesidesLoop

\* batch_video_to_srt.py:409-449: a run begins: the directory is scanned and
\* `results` is made; nothing is written
BeginRun ==
    /\ sb_pc \in {"start", "returned"}
    /\ sb_hist.run < MaxRuns
    /\ sb_pc' = "loop"
    /\ sb_i' = 1
    /\ sb_results' = Results0(sb_files)
    /\ sb_log' = <<>>
    /\ sb_hist' = [run |-> sb_hist.run + 1, disk |-> sb_disk,
                   all_succeeded |-> /\ sb_pc = "returned"
                                     /\ sb_results.success_count = sb_results.total_files]
    /\ UNCHANGED <<sb_files, sb_disk>>
    /\ UNCHANGED besidesLoop

\* batch_video_to_srt.py:451-465: the SRT file of the next video exists
SkipExisting ==
    /\ sb_pc = "loop" /\ sb_i <= Len(sb_files)
    /\ SrtExists(sb_disk, sb_files[sb_i])
    /\ sb_results' = CountExisting(sb_results, sb_files[sb_i])
    /\ sb_log' = Append(sb_log,
                        Iteration(sb_files[sb_i], FALSE, FALSE,
                                  sb_disk[StemOf(sb_files[sb_i])],
                                  sb_disk[StemOf(sb_files[sb_i])]))
    /\ sb_i' = sb_i + 1
    /\ UNCHANGED <<sb_pc, sb_files, sb_disk, sb_hist>>
    /\ UNCHANGED besidesLoop

\* batch_video_to_srt.py:467-513: the next video is transcribed and counted
TranscribeItem ==
    /\ sb_pc = "loop" /\ sb_i <= Len(sb_files)
    /\ ~SrtExists(sb_disk, sb_files[sb_i])
    /\ \E run \in ItemRuns(sb_files[sb_i]) :
          /\ sb_disk' = [sb_disk EXCEPT ![StemOf(sb_files[sb_i])] = run.srt]
          /\ sb_results' = CountTranscribed(sb_results, sb_files[sb_i], run.details)
          /\ sb_log' = Append(sb_log,
                              Iteration(sb_files[sb_i], TRUE, run.remote,
                                        sb_disk[StemOf(sb_files[sb_i])], run.srt))
    /\ sb_i' = sb_i + 1
    /\ UNCHANGED <<sb_pc, sb_files, sb_hist>>
    /\ UNCHANGED besidesLoop

\* batch_video_to_srt.py:515-580: after the last file the statistics are logged
\* and returned; no file is written
ReturnBatch ==
    /\ sb_pc = "loop" /\ sb_i > Len(sb_files)
    /\ sb_pc' = "returned"
    /\ UNCHANGED <<sb_files, sb_i, sb_disk, sb_results, sb_log, sb_hist>>
    /\ UNCHANGED besidesLoop

NextLoop ==
    \/ BeginRun
    \/ SkipExisting
    \/ TranscribeItem
    \/ ReturnBatch

SpecLoop == InitLoop /\ [][NextLoop]_vars

\* ================================================ the time stamp formatters
\* dashscope_audio_analyzer.py:722-741 _format_timestamp for a whole number of
\* milliseconds: the four numbers printed as "HH:MM:SS,mmm"; minutes is the
\* number of whole minutes, hours the number of whole hours in it
FormatTimestamp(milliseconds) ==
    LET ms == milliseconds
        seconds == ms \div 1000
        minutes == seconds \div 60
        hours == minutes \div 60
    IN  [hours |-> hours, minutes |-> minutes, seconds |-> seconds % 60,
         ms_remainder |-> ms % 1000]

\* the fields of an f-string "HH:MM:SS,mmm", in the order they are printed;
\* each is printed in decimal with at least 2 (3) digits, so two strings are
\* equal exactly when the four numbers are
PrintedDash(r) == <<r.hours, r.minutes, r.seconds, r.ms_remainder>>
PrintedSrt(r) == <<r.hours, r.minutes, r.secs, r.milliseconds>>

\* times around the seconds, minutes and hours boundaries, in milliseconds
StampInputs ==
    {h * 3600000 + m * 60000 + s * 1000 + f :
        h \in 0..MaxHours, m \in {0, 1, 59}, s \in {0, 59}, f \in {0, 1, 999}}

StampInit == ts_ms \in StampInputs /\ ts_dash = <<>> /\ ts_srt = <<>>

InitStamp == StampInit /\ IdleBesidesStamp

\* dashscope_audio_analyzer.py:722-741
CallFormatTimestamp ==
    /\ ts_dash = <<>>
    /\ ts_dash' = PrintedDash(FormatTimestamp(ts_ms))
    /\ UNCHANGED <<ts_ms, ts_srt>>
    /\ UNCHANGED besidesStamp

\* srt_utils.py:31-41, called with ms / 1000 seconds
CallFormatSrtTime ==
    /\ ts_srt = <<>>
    /\ ts_srt' = PrintedSrt(FormatTimeDelta(TimeDelta(ts_ms)))
    /\ UNCHANGED <<ts_ms, ts_dash>>
    /\ UNCHANGED besidesStamp

NextStamp ==
    \/ CallFormatTimestamp
    \/ CallFormatSrtTime

SpecStamp == InitStamp /\ [][NextStamp]_vars

\* ================================================================ claims
Inside(i) == pc[i] \in {"process", "stats_write", "returned"}
NumInside == Cardinality({i \in Videos : Inside(i)})
Range(q) == {q[k] : k \in 1..Len(q)}
EntriesOf(i) == {k \in 1..Len(results) : results[k].item = i}
CitesRetryExhaustion(r) == "retry_exhausted" \in Range(r.error)
BatchDone == mainpc = "done"

\* C1: at every moment of a batch run, the number of items between acquiring
\* and releasing the outer semaphore (inside process_video) is at most
\* max_concurrent.
C1_ConcurrencyBounded == NumInside <= max_concurrent

\* C1 witness: the semaphore is full while another item still waits for it.
C1_Witness ==
    /\ NumInside = max_concurrent
    /\ \E i \in Videos : pc[i] = "queued"

\* C2 (as claimed): an item whose slices were produced but failed the quality
\* check is not reported as a success, and the report's processed_videos
\* counts the accepted items only and failed_videos the failed ones only.
C2_RejectedIsDistinct ==
    BatchDone =>
        /\ \A k \in 1..Len(results) :
              (results[k].quality = "rejected" /\ results[k].slices_count > 0)
                  => ~results[k].success
        /\ report.processed_videos =
              Cardinality({k \in 1..Len(results) : results[k].quality = "passed"})
        /\ report.failed_videos =
              Cardinality({i \in Videos : fate[i] # "ok"})

\* C5 (as claimed): an item is recorded as failed only after
\* stop_after_attempt runs of its Item Processor.
C5_FailedOnlyAfterAllAttempts ==
    \A i \in Videos :
        (pc[i] \in {"completed", "raised", "aggregated"} /\ fate[i] # "ok")
            => attempts[i] = stop_after_attempt

\* C7: when the batch is done, every item has exactly one entry in the results;
\* an item whose analysis exhausted its transient-error retries is reported
\* failed with a reason citing the retry exhaustion; every item whose own
\* collaborators did not fail is reported succeeded; the report counts as failed
\* exactly the items that failed on their own. And the batch never stops
\* before it is done.
C7_FailureIsolated ==
    /\ BatchDone =>
          /\ \A i \in Videos : \E k \in EntriesOf(i) :
                /\ fate[i] = "exhausted" =>
                      ~results[k].success /\ CitesRetryExhaustion(results[k])
                /\ fate[i] = "ok" => results[k].success
          /\ report.failed_videos = Cardinality({i \in Videos : fate[i] # "ok"})
          /\ report.processed_videos = Cardinality({i \in Videos : fate[i] = "ok"})
    /\ ~BatchDone => ENABLED Next

\* C7 witness: the batch is done, exactly one item exhausted its retries and
\* every other item succeeded.
C7_Witness ==
    /\ BatchDone
    /\ Cardinality({i \in Videos : fate[i] = "exhausted"}) = 1
    /\ Cardinality({i \in Videos : fate[i] = "ok"}) = NumVideos - 1
    /\ report.failed_videos = 1

C9_NoLostUpdate == BatchDone => report.total_slices >= applied

\* ---------------------------------------------------------------- gates
Count(q, P(_)) == Cardinality({k \in 1..Len(q) : P(q[k])})

\* the slice contract on a valid count v out of n artifacts
SliceContract(v, n) ==
    /\ v * 100 >= 80 * n
    /\ (n - v) * 100 <= 20 * n
    /\ v >= 2

\* C3 (as claimed): on a non-empty list each slice gate passes exactly when
\* validRatio >= 0.8, errorRatio <= 0.2 and validCount >= 2, the counts being
\* the gate's own valid and invalid counts.
C3_SliceGatesIff ==
    Len(gate_slices) > 0 =>
        /\ verdictP # NoVerdict =>
              (verdictP.passed <=>
                  SliceContract(Count(gate_slices, ParallelSliceValid), Len(gate_slices)))
        /\ verdictB # NoVerdict =>
              (verdictB.passed <=>
                  SliceContract(Count(gate_slices, BatchSliceValid), Len(gate_slices)))

\* a segment as the contract classifies it
HasFields(s) == {"start", "end", "text"} \subseteq s.keys
TimestampInvalid(s) == HasFields(s) /\ (s.start < 0 \/ s.end <= s.start)
TextMissing(s) == HasFields(s) /\ \A k \in 1..Len(s.text) : s.text[k] = " "
SegmentValid(s) == HasFields(s) /\ ~TimestampInvalid(s) /\ ~TextMissing(s)
SegmentError(s) == TimestampInvalid(s) \/ TextMissing(s)

\* C4: on a non-empty list of segments the transcript gate passes exactly when
\* validRatio >= 0.9, errorRatio <= 0.1 and validCount >= 1, where the errors
\* are the timestamp-invalid and text-missing segments only.
C4_SegmentsGateIff ==
    (Len(gate_segments) > 0 /\ verdictT # NoVerdict) =>
        LET n == Len(gate_segments)
            v == Count(gate_segments, SegmentValid)
            e == Count(gate_segments, SegmentError)
        IN verdictT.passed <=> (v * 100 >= 90 * n /\ e * 100 <= 10 * n /\ v >= 1)

\* C4 witness: the gate passed a list at both thresholds: ten segments of
\* which one is an error.
C4_Witness ==
    /\ verdictT # NoVerdict /\ verdictT.passed
    /\ Len(gate_segments) = 10
    /\ Count(gate_segments, SegmentError) = 1

\* ------------------------------------------------------------ analyze_video
LastSubmission == an_subs[Len(an_subs)]

\* C6: in one call of analyze_video at most max_retries = 3 submissions are
\* made; a submission is repeated only after a transient failure, so one that
\* fails with another error is the last one; while fewer than 3 were made, a
\* transient failure is followed by another submission; and a call whose last
\* submission failed returns success = false.
C6_SubmissionRetry ==
    /\ Len(an_subs) <= 3
    /\ \A k \in 1..(Len(an_subs) - 1) : an_subs[k] = "transient"
    /\ (Len(an_subs) > 0 /\ LastSubmission = "transient" /\ Len(an_subs) < 3) =>
          (an_pc = "submit" /\ ENABLED Submit)
    /\ (Len(an_subs) > 0 /\ LastSubmission # "ok") =>
          /\ an_pc \in {"submit", "except", "returned"}
          /\ an_pc = "submit" => LastSubmission = "transient"
          /\ an_pc = "returned" => ~an_result.success

\* C6 witness: three submissions failed with a transient error and the call
\* returned success = false.
C6_Witness ==
    /\ an_pc = "returned"
    /\ an_subs = <<"transient", "transient", "transient">>
    /\ ~an_result.success /\ an_result.error = "retry_exhausted"

\* ----------------------------------------------------- ParallelVideoSlicer
RecordsOf(k) == {j \in 1..Len(slice_results) : slice_results[j].segment_index = k}
EncoderSucceeded(out) == out \in {"ok", "ok_small"}
ExtractionReturned == slicer_pc \in {"returned", "converted"}

\* C10: extract_segments_parallel returns only when every submitted task has
\* resolved, with one result per task; every task whose own encoder invocation
\* succeeded has its own success result, whatever the other invocations did;
\* every failed invocation yields one failure result; and until the call
\* returns some task or the collector can always proceed.
C10_EncoderFailureIsolated ==
    /\ ExtractionReturned =>
          /\ \A k \in Segments : seg_pc[k] = "collected" /\ seg_out[k] # "none"
          /\ Len(slice_results) = NumSegments
          /\ \A k \in Segments : EncoderSucceeded(seg_out[k]) =>
                /\ Cardinality(RecordsOf(k)) = 1
                /\ \A j \in RecordsOf(k) : slice_results[j].success
          /\ Cardinality({k \in Segments : ~EncoderSucceeded(seg_out[k])}) =
                Cardinality({j \in 1..Len(slice_results) : ~slice_results[j].success})
    /\ slicer_pc \in {"submit", "collecting"} => ENABLED NextSlicer

\* C10 witness: the call returned after one invocation timed out, one raised
\* and one succeeded.
C10_Witness ==
    /\ ExtractionReturned
    /\ \E k \in Segments : seg_out[k] = "timeout"
    /\ \E k \in Segments : seg_out[k] = "raise_early"
    /\ \E k \in Segments : seg_out[k] = "ok"

\* C11 (as claimed): the list create_slices_from_shots hands to process_video
\* holds exactly one record for every submitted range, success or failure, each
\* carrying the index of its own range.
C11_OneRecordPerRange ==
    slicer_pc = "converted" =>
        /\ Len(gate_slices) = NumSegments
        /\ \A k \in Segments :
              Cardinality({j \in 1..Len(gate_slices) : gate_slices[j].segment_index = k}) = 1

RangeMillis(k) == SubmittedSegment(k).end_time - SubmittedSegment(k).start_time
EncoderInvoked(out) == out \notin {"none", "raise_early"}

\* C13 (as claimed, for extract_segments_parallel): the encoder is never
\* invoked for a submitted range shorter than 1.0 second.
C13_ShortRangeSkipped ==
    slicer_pc # "submit" =>
        \A k \in Segments : RangeMillis(k) < 1000 => ~EncoderInvoked(seg_out[k])

\* C14 (as claimed, for _extract_single_segment): a result reports success only
\* for an output file larger than 1024 bytes.
C14_SuccessNeedsMinSize ==
    \A j \in 1..Len(slice_results) :
        slice_results[j].success => slice_results[j].file_size > min_file_size


\* ------------------------------------------------- _create_default_shots
\* ceil(d / l) for whole d, l
CeilDiv(d, l) == (d + l - 1) \div l

\* C16 (as claimed): for a duration D > 0 and a segment length L > 0 the
\* generator returns; the list it returns has ceil(D/L) ranges indexed 1..k,
\* starts at 0, is contiguous, ends at D, and every range but the last has
\* length L, the last one at most L.
C16_DefaultShotsPartition ==
    LET D == sh_args.duration
        L == sh_args.segment_duration
        k == Len(shots)
    IN /\ sh_pc # "never_returns"
       /\ (sh_pc = "returned" /\ D > 0) =>
             /\ k = CeilDiv(D, L)
             /\ shots[1].start_time = 0 /\ shots[k].end_time = D
             /\ \A j \in 1..k : shots[j].index = j
             /\ \A j \in 1..(k - 1) :
                   /\ shots[j + 1].start_time = shots[j].end_time
                   /\ shots[j].end_time - shots[j].start_time = L
             /\ shots[k].end_time - shots[k].start_time <= L
             /\ shots[k].end_time > shots[k].start_time

\* C20 (as claimed): while the batch collects its items, once at least one
\* item has completed the report on disk holds the outcomes aggregated so far.
C20_ReportPersistedPerItem ==
    (mainpc = "collecting" /\ completed >= 1) => report = stats

\* ------------------------------------------------- analyze_video, clean-up
\* an object of this call is (or was) in Cloud Storage
ObjectUploaded == uploaded /\ an_result.error # "upload_failed"

\* C21 (as claimed): when analyze_video returns after it uploaded an object,
\* with auto_cleanup_storage or without, it has called delete on that object.
C21_UploadedObjectDeleted ==
    (an_pc = "returned" /\ ObjectUploaded) => an_deletes >= 1

\* C30: analyze_video waiting for an operation always comes to return, also
\* when the operation never reports completion; once a pass of the waiting loop
\* finds more than timeout seconds gone it polls no more, and the call returns
\* success = false with the timeout error.
C30_PollingTimesOut ==
    /\ [][(an_pc = "wait" /\ elapsed > timeout) => (an_pc' # "wait" /\ elapsed' = elapsed)]_vars
    /\ [](an_pc = "returned" /\ an_result.error = "timeout"
             => ~an_result.success /\ elapsed > timeout)
    /\ (an_pc = "except" /\ an_error = "timeout")
          ~> (an_pc = "returned" /\ ~an_result.success /\ an_result.error = "timeout")
    /\ (an_pc = "wait") ~> (an_pc = "returned")

C30_Witness ==
    /\ an_pc = "returned" /\ elapsed > timeout
    /\ ~an_result.success /\ an_result.error = "timeout"

\* ------------------------------------------------------------ process_video
NumOutcomes(out) == Cardinality({k \in 1..Len(pv_outcomes) : pv_outcomes[k] = out})
GateHasRun == pv_pc \in {"manifest", "return", "returned"} /\ pv_quality # NoVerdict

\* C12 (as claimed): when 5 ranges are submitted, 4 extractions succeed with
\* files above 1024 bytes and 1 fails by encoder timeout, the gate counts the
\* failed range as an invalid artifact: passed = true with 4 valid of 5
\* artifacts (validRatio 0.8, errorRatio 0.2).
C12_FailedRangeCountedInvalid ==
    (GateHasRun /\ Len(pv_shots) = 5 /\ NumOutcomes("ok") = 4 /\ NumOutcomes("timeout") = 1) =>
        /\ pv_quality.passed
        /\ pv_quality.valid_slices = 4
        /\ pv_quality.total_slices = 5

\* C17 (as claimed): an item whose analysis gave no shots and whose fallback
\* generator gave none either is returned as failed.
C17_NoRangesIsFailure ==
    (pv_pc = "returned" /\ pv_fallback = "empty") => ~pv_result.success

\* C18 (as claimed): process_video returns an outcome only after it wrote the
\* item's manifest file.
C18_ManifestBeforeOutcome == pv_pc = "returned" => pv_manifest

\* ------------------------------------------- the sequential slicing loop
\* C15 (as claimed, for VideoSlicer.extract_segment): the wait for an encoder
\* that hangs is ended by a timeout, so process_video can always go on.
C15_HungEncoderEnded == sq_pc = "blocked" => ENABLED NextSeq

\* ------------------------------------------------------ the entry points
NothingToProcess == en_input # "dir" \/ en_files \cap VideoExtensions = {}

\* C19 (as claimed): when input_dir does not exist or holds no matching file,
\* the entry point returns a failure dict with an error; it does not raise,
\* processes no item and writes no batch report.
C19_StructuralFailureReturned ==
    (en_pc = "done" /\ NothingToProcess) =>
        /\ en_result.kind = "returned"
        /\ ~en_result.success /\ en_result.error # "none"
        /\ en_processed = 0
        /\ ~en_report

\* ------------------------------------------- the executor under several items
\* C28 (as claimed): every item has a worker pool of its own: a queued task of
\* an item waits only while max_workers tasks of that same item are running.
C28_OwnPoolPerItem ==
    \A i \in PoolItems :
        (pl_pc # <<>> /\ QueuedOf(i) # {} /\ RunningOf(i) < pl_workers) => WorkerFree

\* C28 (amended): all items share the one executor, so the number of encoder
\* subprocesses running at the same time never exceeds max_workers, however
\* many items are in flight.
C28_SharedPoolBound == pl_pc # <<>> => PoolRunning <= pl_workers

C28_Witness ==
    /\ pl_pc # <<>>
    /\ PoolRunning = pl_workers
    /\ \A i \in PoolItems : pl_pc[i] = "collecting"
    /\ \E i \in PoolItems : QueuedOf(i) # {} /\ RunningOf(i) = 0

\* ------------------------------------------------------------ the exit status
\* C27 (as claimed): whichever command-line entry point runs, the process exits
\* with status 0 whenever the batch ran and returned its result, items
\* rejected or failed or not, and with a non-zero status only when the batch
\* could not run.
C27_ExitZeroWhenBatchRan ==
    ex_pc = "exited" => (ex_status = 0 <=> ex_result.success)

\* --------------------------------------------- the transcription of one video
\* transcribe_audio answered success with an empty segment list
EmptyTranscript == tr_trans_result.success /\ tr_trans_result.segments = <<>>

\* C22 (as claimed): the transcription client answers success with an empty
\* segment list only when the remote service legitimately found nothing; a
\* failed task and a result that could not be fetched or parsed are answered
\* with success false.
C22_HardFailureNotSuccess ==
    (tr_remote \in RemoteFailures) => ~tr_trans_result.success

\* C25: an empty transcript segment list is rejected with a reason of its own,
\* whatever the thresholds: the gate answers it with "no segments" and answers
\* no other list so, the item processor returns the rejection before the gate's
\* thresholds are consulted, and the batch counts the item as quality-rejected,
\* not as failed.
C25_EmptyTranscriptRejected ==
    /\ ~ValidateSegmentsQuality(<<>>).passed
    /\ ValidateSegmentsQuality(<<>>).error = "no_segments"
    /\ \A segments \in TranscriptInputs :
          segments # <<>> => ValidateSegmentsQuality(segments).error # "no_segments"
    /\ (tr_pc \in {"returned", "counted"} /\ EmptyTranscript) =>
          /\ tr_result = Details(FALSE, TRUE, "no_timestamps")
          /\ tr_quality = NoVerdict
    /\ tr_result.error_type = "no_timestamps" => EmptyTranscript
    /\ (tr_pc = "counted" /\ EmptyTranscript) => tr_counted = "quality_rejected_count"

\* C25 witness: the remote found no speech, and the item has been counted.
C25_Witness ==
    /\ tr_pc = "counted" /\ tr_remote = "no_speech" /\ EmptyTranscript
    /\ tr_counted = "quality_rejected_count"

\* C29 (as claimed): the SRT file is written only after the segments passed
\* the gate in the same call, and for an item that ends rejected or failed no
\* SRT file has been created or modified.
C29_NoSrtUnlessAccepted ==
    /\ tr_srt_file # "absent" => tr_quality.passed
    /\ (tr_pc \in {"returned", "counted"} /\ ~tr_result.success) => tr_srt_file = "absent"

\* ------------------------------------------------- a Quality Gate called twice
\* C24 (as claimed): each Quality Gate leaves the list it is given unchanged,
\* and two calls on the same list return identical verdicts and statistics.
C24_GateIdempotent ==
    /\ (rp_gate = "parallel" => rp_slices = rp_given)
    /\ (rp_gate = "segments" => rp_segments = rp_given)
    /\ Len(rp_verdicts) = 2 => rp_verdicts[1] = rp_verdicts[2]

\* ------------------------------------------------ the output paths of an item
\* C23 (as claimed): two different input files, also two with the same stem
\* and different extensions, share no artifact: their slice paths, manifest
\* paths and SRT paths are disjoint.
C23_ArtifactsDisjoint ==
    pa_paths # <<>> => pa_paths[1] \cap pa_paths[2] = {}

\* ------------------------------------------------ to_srt and the subtitle text
\* the segment as a reader of its subtitle entry should see it: numbered k,
\* times cut to the millisecond, the text as it was
EntryOf(segments, k) ==
    [index |-> k,
     start |-> segments[k].start \div 1000,
     end |-> segments[k].end \div 1000,
     text |-> segments[k].text]

\* C26 (as claimed): for every list of N well-formed, non-overlapping segments
\* the text to_srt returns reads back as exactly N entries, numbered 1..N in
\* the order of the list, with the start and end times of the segments to the
\* millisecond and their texts.
C26_SrtRoundTrip ==
    sr_pc = "done" =>
        /\ Len(sr_parsed) = Len(sr_segments)
        /\ \A k \in 1..Len(sr_parsed) : sr_parsed[k] = EntryOf(sr_segments, k)

\* one artifact as the specification counts it: the file exists, is larger than
\* min_file_size bytes and lasts more than 0 and at most max_slice_duration
\* seconds (durations are in milliseconds)
StatedSliceValid(s) ==
    /\ s.has_path /\ s.exists
    /\ s.size > min_file_size
    /\ 0 < s.duration /\ s.duration <= max_slice_duration * 1000
StatedValidCount(slices) ==
    Cardinality({k \in 1..Len(slices) : StatedSliceValid(slices[k])})

\* C31 (as claimed): in each slice gate an artifact is counted valid if and only
\* if its file exists, its size is strictly greater than 1024 bytes and its
\* duration d satisfies 0 < d <= 300; every other artifact is counted invalid.
C31_ArtifactValidIff ==
    /\ verdictB # NoVerdict =>
          /\ verdictB.valid_slices = StatedValidCount(gate_slices)
          /\ verdictB.invalid_slices = Len(gate_slices) - StatedValidCount(gate_slices)
    /\ verdictP # NoVerdict =>
          verdictP.valid_slices = StatedValidCount(gate_slices)

\* one segment as the specification counts it
StatedSegmentValid(segment) ==
    /\ {"start", "end", "text"} \subseteq segment.keys
    /\ segment.start >= 0
    /\ segment.end > segment.start
    /\ Strip(segment.text) # <<>>
StatedValidSegments(segments) ==
    Cardinality({k \in 1..Len(segments) : StatedSegmentValid(segments[k])})

Span == (MaxSegments + 1) * 1000
WithoutOverlap(segments) ==
    [k \in 1..Len(segments) |->
        [segments[k] EXCEPT !.start = @ + (k - 1) * Span, !.end = @ + (k - 1) * Span]]

\* C33: time overlap never causes rejection in the transcript gate: for any
\* segment list the verdict, the valid count and the error ratio are those of
\* the same list without overlap; only the overlap counter differs.
C33_OverlapNeverRejects ==
    verdictT # NoVerdict =>
        LET apart == ValidateSegmentsQuality(WithoutOverlap(gate_segments))
        IN  /\ apart.acc.overlap_errors = 0
            /\ verdictT.passed = apart.passed
            /\ verdictT.error = apart.error
            /\ verdictT.acc.valid_segments = apart.acc.valid_segments
            /\ verdictT.acc.invalid_segments = apart.acc.invalid_segments
            /\ verdictT.acc.timestamp_errors + verdictT.acc.text_missing =
                  apart.acc.timestamp_errors + apart.acc.text_missing
            /\ verdictT.total_segments = apart.total_segments

\* C33 witness: a list with overlapping segments has passed the gate.
C33_Witness ==
    /\ verdictT # NoVerdict
    /\ verdictT.acc.overlap_errors >= 2
    /\ verdictT.passed
    /\ verdictT.acc.valid_segments = Len(gate_segments)

\* the thresholds a list with `valid` valid artifacts out of `total` violates,
\* in the order the specification gives them
ViolatedChecks(valid, total) ==
    SelectSeq(<<"valid_ratio", "error_ratio", "min_count">>,
              LAMBDA c :
                  CASE c = "valid_ratio" -> valid * 100 < min_valid_ratio_pct * total
                    [] c = "error_ratio" -> (total - valid) * 100 > max_error_ratio_pct * total
                    [] c = "min_count" -> valid < min_slice_count)
\* the reason of a verdict, by the check it names
ReasonOf(verdict) ==
    IF verdict.error = "low_success_rate" THEN "valid_ratio" ELSE verdict.error

\* the first part of C34 alone: a list that violates more than one threshold is
\* rejected with the reason of the first violated check
MultiViolationReason(verdict) ==
    Len(ViolatedChecks(verdict.valid_slices, verdict.total_slices)) > 1 =>
        /\ ~verdict.passed
        /\ ReasonOf(verdict) = Head(ViolatedChecks(verdict.valid_slices, verdict.total_slices))
\* the second part: each violation is reported with its own reason
OwnReason(verdict) ==
    ViolatedChecks(verdict.valid_slices, verdict.total_slices) # <<>> =>
        /\ ~verdict.passed
        /\ ReasonOf(verdict) = Head(ViolatedChecks(verdict.valid_slices, verdict.total_slices))

\* C34 (as claimed): for a non-empty artifact list that violates more than one
\* threshold each slice gate reports exactly one reason, that of the first
\* violated check in the order valid-ratio, error-ratio, min-count, and each of
\* the three violations has its own reason.
C34_FirstViolatedReason ==
    /\ (verdictB # NoVerdict /\ gate_slices # <<>>) =>
          MultiViolationReason(verdictB) /\ OwnReason(verdictB)
    /\ (verdictP # NoVerdict /\ gate_slices # <<>>) =>
          MultiViolationReason(verdictP) /\ OwnReason(verdictP)

\* C40: in BatchVideoSlicer._validate_slice_quality every artifact is counted
\* either valid or invalid, so the error ratio is 1 minus the valid ratio and
\* "error ratio too high" is never the reported reason: whenever the error
\* ratio exceeds 0.2 the gate has rejected on the valid ratio.
C40_ErrorRatioNeverReported ==
    verdictB # NoVerdict =>
        /\ verdictB.valid_slices + verdictB.invalid_slices = Len(gate_slices)
        /\ verdictB.error # "error_ratio"
        /\ verdictB.invalid_slices * 100 > max_error_ratio_pct * verdictB.total_slices =>
              /\ verdictB.valid_slices * 100 < min_valid_ratio_pct * verdictB.total_slices
              /\ verdictB.error = "valid_ratio"

\* C40 witness: a list with an error ratio above the limit has been rejected, and
\* it holds a missing file, a short file and a file of unreasonable duration.
C40_Witness ==
    /\ verdictB # NoVerdict
    /\ verdictB.invalid_slices * 100 > max_error_ratio_pct * verdictB.total_slices
    /\ ~verdictB.passed
    /\ \E k \in 1..Len(gate_slices) : ~gate_slices[k].exists
    /\ \E k \in 1..Len(gate_slices) : gate_slices[k].exists /\ gate_slices[k].size < min_file_size
    /\ \E k \in 1..Len(gate_slices) : gate_slices[k].duration > max_slice_duration * 1000
    /\ verdictB.valid_slices >= 1

\* the sum of slices_count over the first k entries of the results list that
\* report a success
RECURSIVE SucceededSlices(_)
SucceededSlices(k) ==
    IF k = 0 THEN 0
    ELSE SucceededSlices(k - 1) + (IF results[k].success THEN results[k].slices_count ELSE 0)

\* C35 (as claimed): after a parallel batch run, total_slices in the report is
\* the sum of slices_count over the items that succeeded: each item's slices
\* are added to the batch total exactly once.
C35_SlicesCountedOnce ==
    BatchDone => report.total_slices = SucceededSlices(Len(results))

\* C36 (as claimed): for one processor instance used for any sequence of batch
\* runs, after each run the counters describe that run only: processed_videos +
\* failed_videos = total_videos, and processed_videos never exceeds total_videos.
C36_CountersPerRun ==
    ru_pc = "returned" =>
        /\ ru_stats.processed_videos + ru_stats.failed_videos = ru_stats.total_videos
        /\ ru_stats.processed_videos <= ru_stats.total_videos

\* ------------------------------------------------ the transcription batch loop
\* the entries of a list of `results` that name a file
EntriesFor(list, file) == {k \in 1..Len(list) : list[k].video_file = file}
ListedTimes(file) ==
    Cardinality(EntriesFor(sb_results.success_files, file))
    + Cardinality(EntriesFor(sb_results.quality_rejected_files, file))
    + Cardinality(EntriesFor(sb_results.failed_files, file))

\* C37: at the end of batch_process, success_count + quality_rejected_count +
\* failed_count = total_files, and every discovered file is in exactly one of
\* success_files, quality_rejected_files and failed_files.
C37_EveryFileCountedOnce ==
    sb_pc = "returned" =>
        /\ sb_results.success_count + sb_results.quality_rejected_count
              + sb_results.failed_count = sb_results.total_files
        /\ sb_results.total_files = Len(sb_files)
        /\ sb_results.success_count = Len(sb_results.success_files)
        /\ sb_results.quality_rejected_count = Len(sb_results.quality_rejected_files)
        /\ sb_results.failed_count = Len(sb_results.failed_files)
        /\ \A k \in 1..Len(sb_files) : ListedTimes(sb_files[k]) = 1

\* C37 witness: a run has returned with a file on each of two lists, one of
\* them rejected for quality.
C37_Witness ==
    /\ sb_pc = "returned"
    /\ Len(sb_files) = MaxFiles
    /\ sb_results.quality_rejected_count = 1
    /\ sb_results.success_count + sb_results.failed_count = MaxFiles - 1

\* C38: an item whose SRT file exists when its turn comes is counted a success
\* without audio extraction or remote transcription, and the file is left as
\* it was; so a run after one in which every item succeeded makes no remote
\* call and changes no file.
C38_ExistingSrtSkipped ==
    /\ sb_pc \in {"loop", "returned"} =>
          \A k \in 1..Len(sb_log) :
              sb_log[k].before # Absent =>
                  /\ ~sb_log[k].extract /\ ~sb_log[k].remote
                  /\ sb_log[k].after = sb_log[k].before
                  /\ \E j \in EntriesFor(sb_results.success_files, sb_log[k].file) :
                        sb_results.success_files[j].status = "exists"
                  /\ EntriesFor(sb_results.failed_files, sb_log[k].file) = {}
                  /\ EntriesFor(sb_results.quality_rejected_files, sb_log[k].file) = {}
    /\ (sb_pc \in {"loop", "returned"} /\ sb_hist.all_succeeded) =>
          /\ \A k \in 1..Len(sb_log) : ~sb_log[k].extract /\ ~sb_log[k].remote
          /\ sb_disk = sb_hist.disk
          /\ sb_pc = "returned" =>
                /\ Len(sb_log) = Len(sb_files)
                /\ sb_results.success_count = sb_results.total_files

\* C38 witness: the second run over a directory has returned; the first run
\* wrote an SRT file and every item of it succeeded.
C38_Witness ==
    /\ sb_pc = "returned"
    /\ sb_hist.all_succeeded
    /\ Len(sb_log) = MaxFiles
    /\ \E k \in 1..Len(sb_log) : sb_log[k].before = SrtOf(sb_log[k].file)

\* C39 (as claimed): for every non-negative time t in whole milliseconds,
\* _format_timestamp(t) and _format_srt_time(t / 1000) produce the same
\* HH:MM:SS,mmm string, with the minutes and seconds fields in 0..59.
C39_FormattersAgree ==
    (ts_dash # <<>> /\ ts_srt # <<>>) =>
        /\ ts_dash = ts_srt
        /\ ts_dash[2] \in 0..59 /\ ts_dash[3] \in 0..59
        /\ ts_srt[2] \in 0..59 /\ ts_srt[3] \in 0..59

====
